---- MODULE Spec2Model ----
(***************************************************************************)
(* Byte-level model of the astra-formats asset-file codec (src/asset.rs)   *)
(* and bundle container codec (src/bundle.rs).                             *)
(*                                                                         *)
(* A stream is a sequence of bytes (0..255); a stream position is the      *)
(* 0-based offset of the next byte, as std::io::Cursor keeps it, so the    *)
(* byte at position p of stream s is s[p + 1].                             *)
(***************************************************************************)
EXTENDS Integers, Sequences, FiniteSets, TLC

(***************************************************************************)
(* Type hash constants: the i128 values of the source as the 16 bytes the  *)
(* little-endian wire format carries (two's complement).                   *)
(***************************************************************************)
\* -138975531846078832632480790701341156713
ASSET_BUNDLE_HASH == <<151, 218, 95, 70, 136, 228, 90, 87, 200, 180, 45, 79, 66, 73, 114, 151>>
\* -73723634408196252373272760413176173752
TEXT_ASSET_HASH == <<72, 107, 164, 225, 93, 189, 106, 234, 138, 193, 160, 100, 48, 88, 137, 200>>
\* -72083215265324370365192905875055095371
MESH_HASH == <<181, 81, 109, 217, 185, 214, 183, 213, 100, 59, 117, 223, 24, 71, 197, 201>>
\* 161675840667827063370573699974811358877
MESH_FILTER_HASH == <<157, 22, 48, 177, 215, 227, 188, 36, 171, 228, 110, 88, 96, 162, 161, 121>>
\* -72208694526585686254499184803611500559
MESH_RENDERER_HASH == <<241, 159, 126, 32, 195, 37, 88, 156, 52, 101, 84, 239, 125, 28, 173, 201>>
\* -125274292396291140701441925783063757818
AVATAR_HASH == <<6, 252, 17, 124, 166, 217, 101, 20, 12, 204, 24, 202, 132, 12, 193, 161>>
\* 38580764854673472068260433708032579683
MATERIAL_HASH == <<99, 216, 97, 253, 159, 153, 156, 147, 214, 31, 229, 101, 145, 98, 6, 29>>
\* 113257848714874300609633886051190185078
TRANSFORM_HASH == <<118, 28, 168, 31, 120, 73, 21, 66, 186, 220, 55, 248, 16, 171, 52, 85>>
\* -105210905878938171704810466949008006266
GAME_OBJECT_HASH == <<134, 227, 78, 184, 238, 118, 66, 176, 137, 251, 152, 201, 216, 29, 217, 176>>
\* 7922304469189766333664176646841079590
SKINNED_MESH_RENDERER_HASH == <<38, 151, 230, 243, 137, 59, 241, 82, 204, 250, 103, 102, 196, 199, 245, 5>>
\* -6849386489486133465282423213743802251
ANIMATOR_HASH == <<117, 248, 181, 88, 64, 28, 240, 27, 163, 109, 14, 97, 44, 219, 216, 250>>
\* 106062145148120627758638137336021039985
EMPTY_MONO_BEHAVIOR_HASH == <<113, 187, 106, 107, 108, 143, 5, 47, 148, 141, 182, 76, 125, 211, 202, 79>>
\* 86498438524189983969365375508344518452
SPRING_BONE_MONO_BEHAVIOR_HASH == <<52, 183, 100, 119, 157, 67, 29, 236, 201, 224, 247, 58, 72, 254, 18, 65>>
\* -157219901295754190086520324959963540033
SPRING_JOB_MONO_BEHAVIOR_HASH == <<191, 149, 66, 105, 26, 244, 236, 214, 228, 127, 107, 133, 101, 140, 184, 137>>
\* -23841687017746243486512824057502732556
MONO_SCRIPT_HASH == <<244, 110, 142, 48, 236, 194, 147, 73, 63, 24, 171, 39, 19, 66, 16, 238>>
\* 51401989309282493850807588349188048909
TEXTURE_2D_HASH == <<13, 8, 65, 76, 253, 91, 219, 13, 34, 121, 32, 17, 189, 169, 171, 38>>
\* 45701628647153051529734544331337206412
SPRITE_HASH == <<140, 138, 165, 69, 160, 62, 222, 185, 3, 15, 143, 80, 66, 208, 97, 34>>
\* -21517008777126347833343678527744186422
SPRITE_ATLAS_HASH == <<202, 231, 156, 87, 197, 139, 179, 163, 49, 193, 163, 167, 143, 249, 207, 239>>
\* 161821592088346330348225465071444734321
TERRAIN_MONO_BEHAVIOR_TYPE_HASH == <<113, 177, 232, 148, 131, 156, 206, 112, 146, 126, 232, 231, 121, 180, 189, 121>>
\* -80937412517696055409803870673809846754
ANIMATION_CLIP_HASH == <<30, 206, 17, 23, 177, 230, 168, 184, 69, 22, 179, 235, 119, 5, 28, 195>>

(***************************************************************************)
(* Stream primitives.                                                      *)
(***************************************************************************)
Byte == 0..255

\* A local binding (`let v = ...;`): the value is computed once and named.
Bind(v, Body(_)) == Body(v)

\* Every stream of the model is far shorter than this.  A decoded count,
\* size or offset that does not fit is kept as Huge: a read of that many
\* bytes, or at that position, fails with UnexpectedEof either way.
Huge == 2^30 - 1

Zeros(n) == [i \in 1..n |-> 0]

\* The n bytes at position pos (the caller checks that they exist).
Take(s, pos, n) == SubSeq(s, pos + 1, pos + n)

\* read_exact succeeds iff the n bytes exist; reading no byte always succeeds.
Avail(s, pos, n) == n = 0 \/ (pos <= Len(s) /\ n <= Len(s) - pos)

Sat(n) == IF n > Huge THEN Huge ELSE n

\* The next multiple of `align` at or after pos.
AlignUp(pos, align) == IF pos % align = 0 THEN pos ELSE pos + (align - (pos % align))

\* Little-endian value of a byte sequence (saturating at Huge).
RECURSIVE ValLE(_)
ValLE(b) ==
    IF b = <<>> THEN 0
    ELSE LET rest == ValLE(Tail(b))
         IN  IF rest >= 4194304 THEN Huge ELSE Sat(Head(b) + 256 * rest)

Reverse(b) == [i \in 1..Len(b) |-> b[Len(b) + 1 - i]]

\* Big-endian value of a byte sequence (saturating at Huge).
ValBE(b) == ValLE(Reverse(b))

\* The w little-endian bytes of n.
RECURSIVE BytesLE(_, _)
BytesLE(n, w) == IF w = 0 THEN <<>> ELSE <<n % 256>> \o BytesLE(n \div 256, w - 1)

BytesBE(n, w) == Reverse(BytesLE(n, w))

\* Position of the first zero byte at or after pos, Len(s) if there is none.
RECURSIVE FindNul(_, _)
FindNul(s, pos) ==
    IF pos >= Len(s) THEN Len(s)
    ELSE IF s[pos + 1] = 0 THEN pos ELSE FindNul(s, pos + 1)

\* binrw NullString read: the bytes up to the terminating zero; EOF before
\* the terminator is an error.
ReadNullString(s, pos) ==
    LET z == FindNul(s, pos)
    IN  IF z >= Len(s) THEN [ok |-> FALSE, val |-> <<>>, pos |-> pos]
        ELSE [ok |-> TRUE, val |-> Take(s, pos, z - pos), pos |-> z + 1]

\* binrw NullString write: the bytes and a terminating zero.
WriteNullString(str) == str \o <<0>>

(***************************************************************************)
(* Strings.  A Rust String is modelled as its sequence of code points;     *)
(* String::as_bytes is its UTF-8 encoding and encoding_rs's                *)
(* UTF_8.decode_with_bom_removal is the WHATWG UTF-8 decoder: a leading    *)
(* EF BB BF is dropped and every ill-formed sequence becomes U+FFFD.       *)
(***************************************************************************)
REPLACEMENT == <<65533>>

BOM == <<239, 187, 191>>

RECURSIVE Utf8Decode(_, _)
Utf8Decode(b, i) ==
    IF i > Len(b) THEN <<>>
    ELSE LET b0   == b[i]
             need == IF b0 < 128 THEN 0
                     ELSE IF b0 >= 194 /\ b0 <= 223 THEN 1
                     ELSE IF b0 >= 224 /\ b0 <= 239 THEN 2
                     ELSE IF b0 >= 240 /\ b0 <= 244 THEN 3
                     ELSE 4
             lo1  == IF b0 = 224 THEN 160 ELSE IF b0 = 240 THEN 144 ELSE 128
             hi1  == IF b0 = 237 THEN 159 ELSE IF b0 = 244 THEN 143 ELSE 191
             ok1  == i + 1 <= Len(b) /\ b[i + 1] >= lo1 /\ b[i + 1] <= hi1
             ok2  == ok1 /\ i + 2 <= Len(b) /\ b[i + 2] >= 128 /\ b[i + 2] <= 191
             ok3  == ok2 /\ i + 3 <= Len(b) /\ b[i + 3] >= 128 /\ b[i + 3] <= 191
         IN  CASE need = 0 -> <<b0>> \o Utf8Decode(b, i + 1)
               [] need = 1 ->
                    IF ok1 THEN <<(b0 % 32) * 64 + (b[i + 1] % 64)>> \o Utf8Decode(b, i + 2)
                    ELSE REPLACEMENT \o Utf8Decode(b, i + 1)
               [] need = 2 ->
                    IF ok2 THEN <<(b0 % 16) * 4096 + (b[i + 1] % 64) * 64 + (b[i + 2] % 64)>>
                                \o Utf8Decode(b, i + 3)
                    ELSE IF ok1 THEN REPLACEMENT \o Utf8Decode(b, i + 2)
                    ELSE REPLACEMENT \o Utf8Decode(b, i + 1)
               [] need = 3 ->
                    IF ok3 THEN <<(b0 % 8) * 262144 + (b[i + 1] % 64) * 4096
                                  + (b[i + 2] % 64) * 64 + (b[i + 3] % 64)>>
                                \o Utf8Decode(b, i + 4)
                    ELSE IF ok2 THEN REPLACEMENT \o Utf8Decode(b, i + 3)
                    ELSE IF ok1 THEN REPLACEMENT \o Utf8Decode(b, i + 2)
                    ELSE REPLACEMENT \o Utf8Decode(b, i + 1)
               [] OTHER -> REPLACEMENT \o Utf8Decode(b, i + 1)

\* UTF_8.decode_with_bom_removal(&buffer), then cow.to_string().
DecodeWithBomRemoval(b) ==
    IF Len(b) >= 3 /\ SubSeq(b, 1, 3) = BOM THEN Utf8Decode(b, 4) ELSE Utf8Decode(b, 1)

\* The UTF-8 bytes of one code point.
Utf8Char(c) ==
    IF c < 128 THEN <<c>>
    ELSE IF c < 2048 THEN <<192 + (c \div 64), 128 + (c % 64)>>
    ELSE IF c < 65536 THEN <<224 + (c \div 4096), 128 + ((c \div 64) % 64), 128 + (c % 64)>>
    ELSE <<240 + (c \div 262144), 128 + ((c \div 4096) % 64),
           128 + ((c \div 64) % 64), 128 + (c % 64)>>

\* String::as_bytes.
RECURSIVE AsBytes(_)
AsBytes(str) == IF str = <<>> THEN <<>> ELSE Utf8Char(Head(str)) \o AsBytes(Tail(str))

(***************************************************************************)
(* Alignment.  Every reader and writer below works on the position of the  *)
(* stream it is handed.  A decoder returns [ok, val, pos, counts]: whether *)
(* it succeeded, the value, the position after it and, for every           *)
(* length-prefixed array or string it met, where the decoder stood (from)  *)
(* and where the 4-byte count began (at).  An encoder returns              *)
(* [bytes, counts] for the stream position it starts at.                   *)
(***************************************************************************)
\* A decoder that reads the count where it stands.
SeekAlign4_none(pos) == pos

\* if pos % 4 != 0 { reader.seek(SeekFrom::Current(4 - pos % 4)) }
SeekAlign4(pos) == IF pos % 4 # 0 THEN pos + (4 - (pos % 4)) ELSE pos

\* A padding that writes nothing.
write_padding_none(pos, align) == <<>>

\* while writer.stream_position() % align != 0 { writer.write_u8(0) }
write_padding(pos, align) == Zeros((align - (pos % align)) % align)

Failed(pos, counts) == [ok |-> FALSE, val |-> <<>>, pos |-> pos, counts |-> counts]

\* impl BinRead for UString
UString_read(s, pos) ==
    LET at == SeekAlign4(pos)
        cs == <<[from |-> pos, at |-> at]>>
    IN  IF ~Avail(s, at, 4) THEN Failed(at, <<>>)
        ELSE LET count == ValLE(Take(s, at, 4))
             IN  IF ~Avail(s, at + 4, count) THEN Failed(at + 4, cs)
                 ELSE [ok     |-> TRUE,
                       val    |-> DecodeWithBomRemoval(Take(s, at + 4, count)),
                       pos    |-> SeekAlign4(at + 4 + count),
                       counts |-> cs]

\* impl BinWrite for UString
UString_write(str, pos) ==
    Bind(write_padding(pos, 4), LAMBDA pad:
        Bind(AsBytes(str), LAMBDA raw:
            Bind(pad \o BytesLE(Len(raw), 4) \o raw, LAMBDA body:
                [bytes  |-> body \o write_padding(pos + Len(body), 4),
                 counts |-> <<[from |-> pos, at |-> pos + Len(pad)]>>])))

\* impl BinRead for UArray<u8>: the count, then the items one by one.
UArray_read(s, pos) ==
    LET at == SeekAlign4(pos)
        cs == <<[from |-> pos, at |-> at]>>
    IN  IF ~Avail(s, at, 4) THEN Failed(at, <<>>)
        ELSE LET count == ValLE(Take(s, at, 4))
             IN  IF ~Avail(s, at + 4, count) THEN Failed(at + 4, cs)
                 ELSE [ok     |-> TRUE,
                       val    |-> Take(s, at + 4, count),
                       pos    |-> at + 4 + count,
                       counts |-> cs]

\* impl BinWrite for UArray<u8>
UArray_write(items, pos) ==
    LET pad == write_padding(pos, 4)
    IN  [bytes  |-> pad \o BytesLE(Len(items), 4) \o items,
         counts |-> <<[from |-> pos, at |-> pos + Len(pad)]>>]

\* struct TextAsset { name: UString, data: UArray<u8> }, read in declaration order.
TextAsset_read(s, pos) ==
    Bind(UString_read(s, pos), LAMBDA name:
        IF ~name.ok THEN name
        ELSE Bind(UArray_read(s, name.pos), LAMBDA data:
            IF ~data.ok THEN Failed(data.pos, name.counts \o data.counts)
            ELSE [ok     |-> TRUE,
                  val    |-> [variant |-> "Text", name |-> name.val, data |-> data.val],
                  pos    |-> data.pos,
                  counts |-> name.counts \o data.counts]))

TextAsset_write(text, pos) ==
    Bind(UString_write(text.name, pos), LAMBDA name:
        Bind(UArray_write(text.data, pos + Len(name.bytes)), LAMBDA data:
            [bytes |-> name.bytes \o data.bytes, counts |-> name.counts \o data.counts]))

\* enum TextureFormat, #[brw(repr = u32)]: the discriminants declared;
\* reading any other value is an error.
TextureFormats == (1..36) \cup (41..74)

\* struct Texture2D, read in declaration order.  The value keeps the bytes
\* of its fixed-width fields: fallback holds forced_fallback_format,
\* downscale_fallback and is_alpha_channel_optional, extent holds width to
\* mips_stripped, settings holds mip_count to color_space, and stream holds
\* the offset and the size of StreamingInfo.
Texture2D_read(s, pos) ==
    Bind(UString_read(s, pos), LAMBDA name:
    IF ~name.ok THEN name
    ELSE
    Bind(SeekAlign4(name.pos), LAMBDA a:
    Bind(SeekAlign4(a + 6), LAMBDA b:
    IF ~Avail(s, a, 6) THEN Failed(a, name.counts)
    ELSE IF ~Avail(s, b, 72) THEN Failed(b, name.counts)
    ELSE IF ValLE(Take(s, b + 16, 4)) \notin TextureFormats THEN Failed(b + 16, name.counts)
    ELSE
    Bind(UArray_read(s, b + 72), LAMBDA platform_blob:
    IF ~platform_blob.ok THEN Failed(platform_blob.pos, name.counts \o platform_blob.counts)
    ELSE
    Bind(UArray_read(s, platform_blob.pos), LAMBDA image_data:
    Bind(name.counts \o platform_blob.counts \o image_data.counts, LAMBDA counts:
    IF ~image_data.ok THEN Failed(image_data.pos, counts)
    ELSE IF ~Avail(s, image_data.pos, 12) THEN Failed(image_data.pos, counts)
    ELSE
    Bind(UString_read(s, image_data.pos + 12), LAMBDA path:
    IF ~path.ok THEN Failed(path.pos, counts \o path.counts)
    ELSE [ok     |-> TRUE,
          val    |-> [name           |-> name.val,
                      fallback       |-> Take(s, a, 6),
                      extent         |-> Take(s, b, 16),
                      texture_format |-> ValLE(Take(s, b + 16, 4)),
                      settings       |-> Take(s, b + 20, 52),
                      platform_blob  |-> platform_blob.val,
                      image_data     |-> image_data.val,
                      stream         |-> Take(s, image_data.pos, 12),
                      path           |-> path.val],
          pos    |-> path.pos,
          counts |-> counts \o path.counts])))))))

\* The derived writer of Texture2D: the fields in declaration order, with
\* the padding of #[brw(align_before = 4)].
Texture2D_write(texture, pos) ==
    Bind(UString_write(texture.name, pos), LAMBDA name:
    Bind(name.bytes \o write_padding(pos + Len(name.bytes), 4) \o texture.fallback, LAMBDA head:
    Bind(head \o write_padding(pos + Len(head), 4) \o texture.extent
         \o BytesLE(texture.texture_format, 4) \o texture.settings, LAMBDA fixed:
    Bind(UArray_write(texture.platform_blob, pos + Len(fixed)), LAMBDA platform_blob:
    Bind(UArray_write(texture.image_data, pos + Len(fixed) + Len(platform_blob.bytes)),
         LAMBDA image_data:
    Bind(fixed \o platform_blob.bytes \o image_data.bytes \o texture.stream, LAMBDA body:
    Bind(UString_write(texture.path, pos + Len(body)), LAMBDA path:
        [bytes  |-> body \o path.bytes,
         counts |-> name.counts \o platform_blob.counts \o image_data.counts
                    \o path.counts])))))))

(***************************************************************************)
(* Asset dispatch.                                                         *)
(***************************************************************************)
KNOWN_HASHES ==
    {ASSET_BUNDLE_HASH, TEXT_ASSET_HASH, MONO_SCRIPT_HASH, TERRAIN_MONO_BEHAVIOR_TYPE_HASH,
     TEXTURE_2D_HASH, SPRITE_ATLAS_HASH, EMPTY_MONO_BEHAVIOR_HASH, SPRITE_HASH,
     GAME_OBJECT_HASH, ANIMATOR_HASH, MESH_HASH, MESH_FILTER_HASH, MESH_RENDERER_HASH,
     AVATAR_HASH, TRANSFORM_HASH, MATERIAL_HASH, SKINNED_MESH_RENDERER_HASH,
     SPRING_JOB_MONO_BEHAVIOR_HASH, SPRING_BONE_MONO_BEHAVIOR_HASH, ANIMATION_CLIP_HASH}

\* enum Asset: the variants that are not the fallback.
KnownVariants ==
    {"Bundle", "Text", "Script", "Terrain", "Texture2D", "SpriteAtlas", "Sprite",
     "EmptyMonoBehavior", "GameObject", "Animator", "Mesh", "MeshFilter", "MeshRenderer",
     "Avatar", "Transform", "Material", "SkinnedMeshRenderer", "SpringJob", "SpringBone",
     "AnimationClip"}

\* The variant each arm of Asset::read_options maps its record into.
DispatchVariant(hash) ==
    CASE hash = ASSET_BUNDLE_HASH -> "Bundle"
      [] hash = TEXT_ASSET_HASH -> "Text"
      [] hash = MONO_SCRIPT_HASH -> "Script"
      [] hash = TERRAIN_MONO_BEHAVIOR_TYPE_HASH -> "Terrain"
      [] hash = TEXTURE_2D_HASH -> "Texture2D"
      [] hash = SPRITE_ATLAS_HASH -> "SpriteAtlas"
      [] hash = EMPTY_MONO_BEHAVIOR_HASH -> "EmptyMonoBehavior"
      [] hash = SPRITE_HASH -> "Sprite"
      [] hash = GAME_OBJECT_HASH -> "GameObject"
      [] hash = ANIMATOR_HASH -> "Animator"
      [] hash = MESH_HASH -> "Mesh"
      [] hash = MESH_FILTER_HASH -> "MeshFilter"
      [] hash = MESH_RENDERER_HASH -> "MeshRenderer"
      [] hash = AVATAR_HASH -> "Avatar"
      [] hash = TRANSFORM_HASH -> "Transform"
      [] hash = MATERIAL_HASH -> "Material"
      [] hash = SKINNED_MESH_RENDERER_HASH -> "SkinnedMeshRenderer"
      [] hash = SPRING_JOB_MONO_BEHAVIOR_HASH -> "SpringJob"
      [] hash = SPRING_BONE_MONO_BEHAVIOR_HASH -> "SpringBone"
      [] hash = ANIMATION_CLIP_HASH -> "AnimationClip"
      [] OTHER -> "Unparsed"

\* A type_hash whose Sprite and EmptyMonoBehavior arms answer each other's
\* constant.
type_hash_swapped(asset) ==
    CASE asset.variant = "Sprite" -> EMPTY_MONO_BEHAVIOR_HASH
      [] asset.variant = "EmptyMonoBehavior" -> SPRITE_HASH
      [] asset.variant = "Unparsed" -> asset.type_hash
      [] OTHER -> CHOOSE h \in KNOWN_HASHES : DispatchVariant(h) = asset.variant

\* Asset::type_hash
type_hash(asset) ==
    CASE asset.variant = "Bundle" -> ASSET_BUNDLE_HASH
      [] asset.variant = "Text" -> TEXT_ASSET_HASH
      [] asset.variant = "Script" -> MONO_SCRIPT_HASH
      [] asset.variant = "Terrain" -> TERRAIN_MONO_BEHAVIOR_TYPE_HASH
      [] asset.variant = "Texture2D" -> TEXTURE_2D_HASH
      [] asset.variant = "SpriteAtlas" -> SPRITE_ATLAS_HASH
      [] asset.variant = "Sprite" -> SPRITE_HASH
      [] asset.variant = "EmptyMonoBehavior" -> EMPTY_MONO_BEHAVIOR_HASH
      [] asset.variant = "GameObject" -> GAME_OBJECT_HASH
      [] asset.variant = "Animator" -> ANIMATOR_HASH
      [] asset.variant = "MeshFilter" -> MESH_FILTER_HASH
      [] asset.variant = "Mesh" -> MESH_HASH
      [] asset.variant = "MeshRenderer" -> MESH_RENDERER_HASH
      [] asset.variant = "Avatar" -> AVATAR_HASH
      [] asset.variant = "Transform" -> TRANSFORM_HASH
      [] asset.variant = "Material" -> MATERIAL_HASH
      [] asset.variant = "SkinnedMeshRenderer" -> SKINNED_MESH_RENDERER_HASH
      [] asset.variant = "SpringJob" -> SPRING_JOB_MONO_BEHAVIOR_HASH
      [] asset.variant = "SpringBone" -> SPRING_BONE_MONO_BEHAVIOR_HASH
      [] asset.variant = "AnimationClip" -> ANIMATION_CLIP_HASH
      [] asset.variant = "Unparsed" -> asset.type_hash

\* The fallback arm of Asset::read_options: vec![0; size], read_exact.
Unparsed_read(s, pos, args) ==
    IF ~Avail(s, pos, args.size) THEN Failed(pos, <<>>)
    ELSE [ok     |-> TRUE,
          val    |-> [variant   |-> "Unparsed",
                      type_hash |-> args.type_hash,
                      path_id   |-> args.pptr,
                      blob      |-> Take(s, pos, args.size)],
          pos    |-> pos + args.size,
          counts |-> <<>>]

\* An encoder that pads the blob to a multiple of 4 itself.
Unparsed_write_padded(asset, pos) ==
    [bytes |-> asset.blob \o Zeros((4 - (Len(asset.blob) % 4)) % 4), counts |-> <<>>]

\* impl BinWrite for Unparsed: self.blob.write_options
Unparsed_write(asset, pos) == [bytes |-> asset.blob, counts |-> <<>>]

\* The Texture2D arm of Asset::read_options:
\* Texture2D::read_options(..).map(|texture| Self::Texture2D(texture, pptr))
Asset_read_Texture2D(s, pos, args) ==
    Bind(Texture2D_read(s, pos), LAMBDA rec:
        IF ~rec.ok THEN rec
        ELSE [rec EXCEPT !.val = [variant |-> "Texture2D", texture |-> rec.val,
                                  pptr |-> args.pptr]])

\* impl BinRead for Asset.  Of the record codecs, TextAsset, Texture2D and
\* the fallback are modelled; a file of the model declares no other known
\* type.
Asset_read(s, pos, args) ==
    Bind(DispatchVariant(args.type_hash), LAMBDA variant:
        CASE variant = "Text" -> TextAsset_read(s, pos)
          [] variant = "Texture2D" -> Asset_read_Texture2D(s, pos, args)
          [] variant = "Unparsed" -> Unparsed_read(s, pos, args)
          [] OTHER -> Failed(pos, <<>>))

\* The fields of the variant Texture2D(Texture2D, u64) written in order:
\* the record, then the u64.
Asset_write_Texture2D(asset, pos) ==
    Bind(Texture2D_write(asset.texture, pos), LAMBDA rec:
        [bytes |-> rec.bytes \o asset.pptr, counts |-> rec.counts])

\* #[derive(BinWrite)] enum Asset: the fields of the variant, in order.
Asset_write(asset, pos) ==
    CASE asset.variant = "Text" -> TextAsset_write(asset, pos)
      [] asset.variant = "Texture2D" -> Asset_write_Texture2D(asset, pos)
      [] asset.variant = "Unparsed" -> Unparsed_write(asset, pos)
      [] OTHER -> [bytes |-> <<>>, counts |-> <<>>]

(***************************************************************************)
(* Asset-file reader.  The derived BinRead of AssetFile reads the fields   *)
(* in declaration order; each step below is one field (or one count and    *)
(* its vector).  A reader state rd carries the outcome so far:             *)
(* status "ok", "err" (an Err value) or "panic", the stage reached, the    *)
(* stream position and the fields read; spans lists, for every record      *)
(* decoded, its table index and the stream positions where its decoder     *)
(* started and stopped.                                                    *)
(***************************************************************************)
NoHeader ==
    [junk |-> <<>>, version |-> 0, junk2 |-> <<>>, meta_data_size |-> 0, file_size |-> 0,
     data_offset |-> 0, junk3 |-> <<>>, unity_version |-> <<>>, platform |-> <<>>,
     enable_type_tree |-> 0]

NewReader ==
    [status |-> "ok", stage |-> "start", pos |-> 0, header |-> NoHeader, types |-> <<>>,
     objects |-> <<>>, scripts |-> <<>>, externals |-> <<>>, ref_type_count |-> 0,
     user_info |-> <<>>, user_info_read |-> FALSE, assets |-> <<>>, decoded |-> 0,
     counts |-> <<>>, spans |-> <<>>]

Err(rd, stage) == [rd EXCEPT !.status = "err", !.stage = stage]

\* struct AssetFileHeader, big-endian; platform is #[brw(little)].
AssetFileHeader_read(s, pos) ==
    IF ~Avail(s, pos, 48) THEN [ok |-> FALSE, val |-> NoHeader, pos |-> pos]
    ELSE Bind(ReadNullString(s, pos + 48), LAMBDA ver:
             IF ~ver.ok \/ ~Avail(s, ver.pos, 5) THEN [ok |-> FALSE, val |-> NoHeader, pos |-> pos]
             ELSE [ok  |-> TRUE,
                   val |-> [junk             |-> Take(s, pos, 8),
                            version          |-> ValBE(Take(s, pos + 8, 4)),
                            junk2            |-> Take(s, pos + 12, 8),
                            meta_data_size   |-> ValBE(Take(s, pos + 20, 4)),
                            file_size        |-> ValBE(Take(s, pos + 24, 8)),
                            data_offset      |-> ValBE(Take(s, pos + 32, 8)),
                            junk3            |-> Take(s, pos + 40, 8),
                            unity_version    |-> ver.val,
                            platform         |-> Take(s, ver.pos, 4),
                            enable_type_tree |-> s[ver.pos + 5]],
                   pos |-> ver.pos + 5])

AssetFileHeader_write(h) ==
    h.junk \o BytesBE(h.version, 4) \o h.junk2 \o BytesBE(h.meta_data_size, 4)
    \o BytesBE(h.file_size, 8) \o BytesBE(h.data_offset, 8) \o h.junk3
    \o WriteNullString(h.unity_version) \o h.platform \o <<h.enable_type_tree>>

CLASS_ID_SCRIPT == <<114, 0, 0, 0>>

\* 32 bytes a type-tree node; a count too large for any stream stays Huge.
NodeBytes(node_count) == IF node_count > 1048576 THEN Huge ELSE 32 * node_count

\* struct AssetFileType with its AssetFileTypeTree; the tree is kept as bytes.
AssetFileType_read(s, pos) ==
    LET bad == [ok |-> FALSE, val |-> <<>>, pos |-> pos]
    IN  IF ~Avail(s, pos, 7) THEN bad
        ELSE LET class_id == Take(s, pos, 4)
                 p1       == pos + 7
                 p2       == IF class_id = CLASS_ID_SCRIPT THEN p1 + 16 ELSE p1
             IN  IF ~Avail(s, p1, p2 - p1 + 24) THEN bad
                 ELSE LET node_count      == ValLE(Take(s, p2 + 16, 4))
                          str_buffer_size == ValLE(Take(s, p2 + 20, 4))
                          p3              == p2 + 24
                      IN  IF ~Avail(s, p3, NodeBytes(node_count)) THEN bad
                          ELSE IF ~Avail(s, p3 + NodeBytes(node_count), str_buffer_size) THEN bad
                          ELSE LET p4 == p3 + NodeBytes(node_count) + str_buffer_size
                               IN  IF ~Avail(s, p4, 4) THEN bad
                                   ELSE [ok  |-> TRUE,
                                         val |-> [class_id          |-> class_id,
                                                  is_stripped_type  |-> s[pos + 5],
                                                  script_type_index |-> Take(s, pos + 5, 2),
                                                  script_id         |-> IF class_id = CLASS_ID_SCRIPT
                                                                        THEN Take(s, p1, 16)
                                                                        ELSE Zeros(16),
                                                  type_hash         |-> Take(s, p2, 16),
                                                  node_count        |-> node_count,
                                                  str_buffer_size   |-> str_buffer_size,
                                                  nodes             |-> Take(s, p3, NodeBytes(node_count)),
                                                  str_buffer        |-> Take(s, p3 + NodeBytes(node_count),
                                                                             str_buffer_size),
                                                  junk              |-> Take(s, p4, 4)],
                                         pos |-> p4 + 4]

AssetFileType_write(ty) ==
    ty.class_id \o <<ty.is_stripped_type>> \o ty.script_type_index
    \o (IF ty.class_id = CLASS_ID_SCRIPT THEN ty.script_id ELSE <<>>)
    \o ty.type_hash \o BytesLE(ty.node_count, 4) \o BytesLE(ty.str_buffer_size, 4)
    \o ty.nodes \o ty.str_buffer \o ty.junk

\* struct AssetFileObject, 24 bytes.
AssetFileObject_read(s, pos) ==
    IF ~Avail(s, pos, 24) THEN [ok |-> FALSE, val |-> <<>>, pos |-> pos]
    ELSE [ok  |-> TRUE,
          val |-> [path_id |-> Take(s, pos, 8),
                   offset  |-> ValLE(Take(s, pos + 8, 8)),
                   size    |-> ValLE(Take(s, pos + 16, 4)),
                   type_id |-> ValLE(Take(s, pos + 20, 4))],
          pos |-> pos + 24]

AssetFileObject_write(obj) ==
    obj.path_id \o BytesLE(obj.offset, 8) \o BytesLE(obj.size, 4) \o BytesLE(obj.type_id, 4)

\* AssetFileObject::default()
DefaultObject == [path_id |-> Zeros(8), offset |-> 0, size |-> 0, type_id |-> 0]

\* struct AssetScript, 12 bytes, kept as read.
AssetScript_read(s, pos) ==
    IF ~Avail(s, pos, 12) THEN [ok |-> FALSE, val |-> <<>>, pos |-> pos]
    ELSE [ok |-> TRUE, val |-> Take(s, pos, 12), pos |-> pos + 12]

\* struct AssetExternal { unknown: NullString, guid: i128, ty: u32, path: NullString }
AssetExternal_read(s, pos) ==
    Bind(ReadNullString(s, pos), LAMBDA unknown:
        IF ~unknown.ok \/ ~Avail(s, unknown.pos, 20) THEN [ok |-> FALSE, val |-> <<>>, pos |-> pos]
        ELSE Bind(ReadNullString(s, unknown.pos + 20), LAMBDA path:
            IF ~path.ok THEN [ok |-> FALSE, val |-> <<>>, pos |-> pos]
            ELSE [ok  |-> TRUE,
                  val |-> [unknown |-> unknown.val,
                           guid    |-> Take(s, unknown.pos, 16),
                           ty      |-> Take(s, unknown.pos + 16, 4),
                           path    |-> path.val],
                  pos |-> path.pos]))

\* A script reference is written back as it was read.
AssetScript_write(script) == script

AssetExternal_write(ext) ==
    WriteNullString(ext.unknown) \o ext.guid \o ext.ty \o WriteNullString(ext.path)

\* #[br(count = n)] Vec<T>: n items in a row, the first failure ends the read.
RECURSIVE ReadVec(_, _, _, _, _)
ReadVec(Item(_, _), s, pos, n, acc) ==
    IF n = 0 THEN [ok |-> TRUE, val |-> acc, pos |-> pos]
    ELSE Bind(Item(s, pos), LAMBDA item:
             IF ~item.ok THEN [ok |-> FALSE, val |-> acc, pos |-> pos]
             ELSE ReadVec(Item, s, item.pos, n - 1, Append(acc, item.val)))

\* The same for items of a fixed size: they are all there or the read fails.
ReadFixedVec(Item(_, _), s, pos, n, size) ==
    IF n > Len(s) \/ ~Avail(s, pos, n * size) THEN [ok |-> FALSE, val |-> <<>>, pos |-> pos]
    ELSE [ok  |-> TRUE,
          val |-> [i \in 1..n |-> Item(s, pos + (i - 1) * size).val],
          pos |-> pos + n * size]

\* Vec<T>::write_options: the items in a row.
RECURSIVE WriteVec(_, _)
WriteVec(Item(_), items) ==
    IF items = <<>> THEN <<>> ELSE Item(Head(items)) \o WriteVec(Item, Tail(items))

\* A u32 count and its vector.
ReadCounted(Item(_, _), s, pos) ==
    IF ~Avail(s, pos, 4) THEN [ok |-> FALSE, val |-> <<>>, pos |-> pos]
    ELSE ReadVec(Item, s, pos + 4, ValLE(Take(s, pos, 4)), <<>>)

\* A big-endian u32 count and its vector.
ReadCounted_BE(Item(_, _), s, pos) ==
    IF ~Avail(s, pos, 4) THEN [ok |-> FALSE, val |-> <<>>, pos |-> pos]
    ELSE ReadVec(Item, s, pos + 4, ValBE(Take(s, pos, 4)), <<>>)

\* header: AssetFileHeader, #[brw(big)]
RdHeader(s, rd) ==
    Bind(AssetFileHeader_read(s, rd.pos), LAMBDA h:
        IF ~h.ok THEN Err(rd, "header")
        ELSE [rd EXCEPT !.stage = "header", !.pos = h.pos, !.header = h.val])

\* type_count: u32, types: Vec<AssetFileType>
RdTypes(s, rd) ==
    Bind(ReadCounted(AssetFileType_read, s, rd.pos), LAMBDA v:
        IF ~v.ok THEN Err(rd, "types")
        ELSE [rd EXCEPT !.stage = "types", !.pos = v.pos, !.types = v.val])

\* #[br(align_after = 4)] object_count: u32, objects: Vec<AssetFileObject>
RdObjects(s, rd) ==
    IF ~Avail(s, rd.pos, 4) THEN Err(rd, "objects")
    ELSE Bind(ReadFixedVec(AssetFileObject_read, s, AlignUp(rd.pos + 4, 4),
                           ValLE(Take(s, rd.pos, 4)), 24), LAMBDA v:
             IF ~v.ok THEN Err(rd, "objects")
             ELSE [rd EXCEPT !.stage = "objects", !.pos = v.pos, !.objects = v.val])

\* script_count: u32, scripts: Vec<AssetScript>
RdScripts(s, rd) ==
    Bind(IF ~Avail(s, rd.pos, 4) THEN [ok |-> FALSE, val |-> <<>>, pos |-> rd.pos]
         ELSE ReadFixedVec(AssetScript_read, s, rd.pos + 4, ValLE(Take(s, rd.pos, 4)), 12),
         LAMBDA v:
        IF ~v.ok THEN Err(rd, "scripts")
        ELSE [rd EXCEPT !.stage = "scripts", !.pos = v.pos, !.scripts = v.val])

\* external_count: u32, externals: Vec<AssetExternal>
RdExternals(s, rd) ==
    Bind(ReadCounted(AssetExternal_read, s, rd.pos), LAMBDA v:
        IF ~v.ok THEN Err(rd, "externals")
        ELSE [rd EXCEPT !.stage = "externals", !.pos = v.pos, !.externals = v.val])

\* #[br(temp)] ref_type_count: u32
RdRefTypeCount(s, rd) ==
    IF ~Avail(s, rd.pos, 4) THEN Err(rd, "ref_type_count")
    ELSE [rd EXCEPT !.stage = "ref_type_count", !.pos = rd.pos + 4,
                    !.ref_type_count = ValLE(Take(s, rd.pos, 4))]

\* user_info: NullString
RdUserInfo(s, rd) ==
    Bind(ReadNullString(s, rd.pos), LAMBDA v:
        IF ~v.ok THEN Err(rd, "user_info")
        ELSE [rd EXCEPT !.stage = "user_info", !.pos = v.pos, !.user_info = v.val,
                        !.user_info_read = TRUE])

\* The indices 0..n-1 of the object table in the order of a stable sort by
\* offset (slice::sort_by keeps equal elements in their original order):
\* insertion of each index, in table order, after every index whose offset
\* is not greater.
\* An insertion that puts an index before the indices of equal offset.
RECURSIVE UnstableInsert(_, _, _)
UnstableInsert(objects, sorted, index) ==
    IF sorted = <<>> THEN <<index>>
    ELSE IF objects[index + 1].offset <= objects[Head(sorted) + 1].offset
         THEN <<index>> \o sorted
         ELSE <<Head(sorted)>> \o UnstableInsert(objects, Tail(sorted), index)

RECURSIVE StableInsert(_, _, _)
StableInsert(objects, sorted, index) ==
    IF sorted = <<>> THEN <<index>>
    ELSE IF objects[index + 1].offset < objects[Head(sorted) + 1].offset
         THEN <<index>> \o sorted
         ELSE <<Head(sorted)>> \o StableInsert(objects, Tail(sorted), index)

RECURSIVE SortByOffset(_, _, _)
SortByOffset(objects, sorted, index) ==
    IF index >= Len(objects) THEN sorted
    ELSE SortByOffset(objects, StableInsert(objects, sorted, index), index + 1)

\* fn calculate_object_order
calculate_object_order(objects) == SortByOffset(objects, <<>>, 0)

\* The offset-sorted table indices read_assets walks (sorted_objects).
sorted_objects(objects) == SortByOffset(objects, <<>>, 0)

\* The loop of read_assets over sorted[i..]: types[obj.type_id] panics out of
\* range, then seek(Start(data_offset + obj.offset)) and Asset::read_options.
RECURSIVE ReadAssetsLoop(_, _, _, _)
ReadAssetsLoop(s, rd, sorted, i) ==
    IF i > Len(sorted) THEN [rd EXCEPT !.stage = "assets"]
    ELSE Bind(rd.objects[sorted[i] + 1], LAMBDA obj:
             IF obj.type_id >= Len(rd.types)
             THEN [rd EXCEPT !.status = "panic", !.stage = "assets"]
             ELSE Bind(Asset_read(s, rd.header.data_offset + obj.offset,
                                  [size      |-> obj.size,
                                   type_hash |-> rd.types[obj.type_id + 1].type_hash,
                                   pptr      |-> obj.path_id]), LAMBDA rec:
                      IF ~rec.ok THEN Err([rd EXCEPT !.counts = rd.counts \o rec.counts], "assets")
                      ELSE ReadAssetsLoop(s,
                               [rd EXCEPT !.counts = rd.counts \o rec.counts,
                                          !.spans = Append(rd.spans,
                                                [index |-> sorted[i],
                                                 at    |-> rd.header.data_offset + obj.offset,
                                                 end   |-> rec.pos]),
                                          !.assets = Append(rd.assets, rec.val),
                                          !.decoded = rd.decoded + 1,
                                          !.pos = rec.pos],
                               sorted, i + 1)))

\* fn read_assets (the parse_with of `assets`)
read_assets(s, rd) == ReadAssetsLoop(s, rd, sorted_objects(rd.objects), 1)

\* #[br(assert(ref_type_count == 0))] on the struct: binrw checks a
\* struct-level assertion once every field has been read.
RdAssert(rd) ==
    IF rd.ref_type_count # 0 THEN Err(rd, "assert") ELSE [rd EXCEPT !.stage = "done"]

\* One field of the derived reader: the step after stage `stage`.
ReadStep(s, rd) ==
    CASE rd.stage = "start" -> RdHeader(s, rd)
      [] rd.stage = "header" -> RdTypes(s, rd)
      [] rd.stage = "types" -> RdObjects(s, rd)
      [] rd.stage = "objects" -> RdScripts(s, rd)
      [] rd.stage = "scripts" -> RdExternals(s, rd)
      [] rd.stage = "externals" -> RdRefTypeCount(s, rd)
      [] rd.stage = "ref_type_count" -> RdUserInfo(s, rd)
      [] rd.stage = "user_info" -> read_assets(s, rd)
      [] rd.stage = "assets" -> RdAssert(rd)

Running(rd) == rd.status = "ok" /\ rd.stage # "done"

\* AssetFile::read_le: every step in turn until one fails or all are done.
RECURSIVE RunReader(_, _)
RunReader(s, rd) == IF Running(rd) THEN RunReader(s, ReadStep(s, rd)) ELSE rd

\* The AssetFile value a finished reader builds: path_ids and object_order
\* are the #[br(calc)] fields.
AssetFileOf(rd) ==
    [header       |-> rd.header,
     types        |-> rd.types,
     path_ids     |-> [i \in 1..Len(rd.objects) |-> rd.objects[i].path_id],
     object_order |-> calculate_object_order(rd.objects),
     scripts      |-> rd.scripts,
     externals    |-> rd.externals,
     user_info    |-> rd.user_info,
     assets       |-> rd.assets]

NoFile ==
    [header |-> NoHeader, types |-> <<>>, path_ids |-> <<>>, object_order |-> <<>>,
     scripts |-> <<>>, externals |-> <<>>, user_info |-> <<>>, assets |-> <<>>]

\* AssetFile::read_le(&mut Cursor::new(bytes)): [status, file, rd].
AssetFile_read(s) ==
    Bind(RunReader(s, NewReader), LAMBDA done:
        [status |-> done.status,
         file   |-> IF done.status = "ok" THEN AssetFileOf(done) ELSE NoFile,
         rd     |-> done])

(***************************************************************************)
(* Asset-file writer.  The writer is a cursor at the end of a vector that  *)
(* already holds `base` bytes; the bytes returned are those from           *)
(* base_position on, and every padding is computed from the position in    *)
(* the whole stream (base_position + the bytes written so far).            *)
(***************************************************************************)
MIN_DATA_OFFSET == 4096

HEADER_FIXED_SIZE == 54

Max(a, b) == IF a >= b THEN a ELSE b

Min(a, b) == IF a <= b THEN a ELSE b

\* type_hash_to_id.get(hash): collecting (type_hash, index) pairs into a
\* HashMap keeps the last index of a hash; -1 stands for None.
RECURSIVE type_hash_to_id(_, _, _)
type_hash_to_id(types, hash, n) ==
    IF n = 0 THEN -1
    ELSE IF types[n].type_hash = hash THEN n - 1
    ELSE type_hash_to_id(types, hash, n - 1)

\* The loop with every object stored at the index of its asset instead of
\* object_order's.
RECURSIVE WriteAssetsLoop_in_asset_order(_, _, _, _)
WriteAssetsLoop_in_asset_order(file, start, w, i) ==
    IF i > Min(Len(file.assets), Len(file.object_order)) THEN w
    ELSE
    Bind(write_padding(start + Len(w.data), 8), LAMBDA pad8:
    Bind(Asset_write(file.assets[i], start + Len(w.data) + Len(pad8)), LAMBDA rec:
    Bind(w.data \o pad8 \o rec.bytes, LAMBDA data:
    Bind(data \o write_padding(start + Len(data), 4), LAMBDA padded:
        WriteAssetsLoop_in_asset_order(file, start,
            [w EXCEPT !.data = padded,
                      !.counts = w.counts \o rec.counts,
                      !.objects[i] =
                          [path_id |-> Zeros(8),
                           offset  |-> Len(w.data) + Len(pad8),
                           size    |-> Len(padded) - Len(w.data) - Len(pad8),
                           type_id |-> type_hash_to_id(file.types, type_hash(file.assets[i]),
                                                       Len(file.types))],
                      !.placed = Append(w.placed, [index |-> i - 1,
                                                   at    |-> start + Len(w.data) + Len(pad8),
                                                   len   |-> Len(rec.bytes)])],
            i + 1)))))

\* The loop over izip!(&self.assets, &self.object_order) from pair i on.
\* w = [status, data, objects, counts]: data holds the bytes written since
\* `start`, objects the table being built.
RECURSIVE WriteAssetsLoop(_, _, _, _)
WriteAssetsLoop(file, start, w, i) ==
    IF i > Min(Len(file.assets), Len(file.object_order)) THEN w
    ELSE
    Bind(file.assets[i], LAMBDA asset:
    Bind(write_padding(start + Len(w.data), 8), LAMBDA pad8:
    Bind(Len(w.data) + Len(pad8), LAMBDA offset:
    Bind(Asset_write(asset, start + offset), LAMBDA rec:
    Bind(write_padding(start + offset + Len(rec.bytes), 4), LAMBDA pad4:
    Bind(type_hash_to_id(file.types, type_hash(asset), Len(file.types)), LAMBDA type_id:
    Bind(file.object_order[i], LAMBDA index:
    Bind([w EXCEPT !.data = w.data \o pad8 \o rec.bytes \o pad4,
                   !.counts = w.counts \o rec.counts], LAMBDA seen:
        IF type_id < 0 THEN [seen EXCEPT !.status = "err"]
        ELSE IF index >= Len(w.objects) THEN [seen EXCEPT !.status = "panic"]
        ELSE WriteAssetsLoop(file, start,
                 [seen EXCEPT !.objects[index + 1] =
                                  [path_id |-> Zeros(8),
                                   offset  |-> offset,
                                   size    |-> Len(seen.data) - offset,
                                   type_id |-> type_id],
                              !.placed = Append(w.placed, [index |-> index, at |-> start + offset,
                                                           len |-> Len(rec.bytes)])],
                 i + 1)))))))))

\* The object table once every path id is copied into it.
WithPathIds(objects, path_ids) ==
    [i \in 1..Len(objects) |->
        IF i <= Len(path_ids) THEN [objects[i] EXCEPT !.path_id = path_ids[i]] ELSE objects[i]]

\* Option<&Asset>: None, or the slot (0-based) of `assets` and its value.
NoSlot == [found |-> FALSE, slot |-> -1, asset |-> <<>>]

\* The lookup returning the asset at the index of the table entry itself.
get_asset_by_path_id_unordered(file, path_id) ==
    IF \A i \in 1..Len(file.path_ids) : file.path_ids[i] # path_id THEN NoSlot
    ELSE
    Bind(CHOOSE i \in 1..Len(file.path_ids) :
            /\ file.path_ids[i] = path_id
            /\ \A k \in 1..(i - 1) : file.path_ids[k] # path_id, LAMBDA first:
        IF first > Len(file.assets) THEN NoSlot
        ELSE [found |-> TRUE, slot |-> first - 1, asset |-> file.assets[first]])

\* AssetFile::get_asset_by_path_id: the index of the first path id equal to
\* path_id, the first position of object_order that holds that index, and
\* the asset at that position.
get_asset_by_path_id(file, path_id) ==
    IF \A i \in 1..Len(file.path_ids) : file.path_ids[i] # path_id THEN NoSlot
    ELSE
    Bind((CHOOSE i \in 1..Len(file.path_ids) :
            /\ file.path_ids[i] = path_id
            /\ \A k \in 1..(i - 1) : file.path_ids[k] # path_id) - 1, LAMBDA index:
    IF \A j \in 1..Len(file.object_order) : file.object_order[j] # index THEN NoSlot
    ELSE
    Bind((CHOOSE j \in 1..Len(file.object_order) :
            /\ file.object_order[j] = index
            /\ \A k \in 1..(j - 1) : file.object_order[k] # index) - 1, LAMBDA actual_index:
        IF actual_index >= Len(file.assets) THEN NoSlot
        ELSE [found |-> TRUE, slot |-> actual_index, asset |-> file.assets[actual_index + 1]]))

\* AssetFile::get_asset_by_path_id_mut: the same two searches, each ended
\* by `?`, then assets.get_mut.
get_asset_by_path_id_mut(file, path_id) ==
    Bind({i \in 1..Len(file.path_ids) : file.path_ids[i] = path_id}, LAMBDA hits:
    IF hits = {} THEN NoSlot
    ELSE
    Bind((CHOOSE i \in hits : \A k \in hits : i <= k) - 1, LAMBDA index:
    Bind({j \in 1..Len(file.object_order) : file.object_order[j] = index}, LAMBDA places:
    IF places = {} THEN NoSlot
    ELSE
    Bind((CHOOSE j \in places : \A k \in places : j <= k) - 1, LAMBDA actual_index:
        IF actual_index >= Len(file.assets) THEN NoSlot
        ELSE [found |-> TRUE, slot |-> actual_index, asset |-> file.assets[actual_index + 1]]))))

\* The header's meta_data_size without the engine version, the platform and
\* the type-tree flag.
meta_data_size_measured_only(meta_data_size, unity_version) == meta_data_size

\* The meta_data_size stored in the header: the engine version string with
\* its terminator (len + 1), the platform (4) and the type-tree flag (1)
\* lie in the header and count as meta-data.
header_meta_data_size(meta_data_size, unity_version) ==
    meta_data_size + Len(unity_version) + 6

\* impl BinWrite for AssetFile
AssetFile_write(file, base_position) ==
    Bind(Zeros(HEADER_FIXED_SIZE + Len(file.header.unity_version)), LAMBDA reserved:
    Bind(base_position + Len(reserved), LAMBDA meta_data_base:
    Bind(BytesLE(Len(file.types), 4) \o WriteVec(AssetFileType_write, file.types)
         \o BytesLE(Len(file.assets), 4), LAMBDA head:
    Bind(write_padding(meta_data_base + Len(head), 4), LAMBDA pad_objects:
    Bind(meta_data_base + Len(head) + Len(pad_objects), LAMBDA objects_position:
    Bind(BytesLE(Len(file.scripts), 4) \o WriteVec(AssetScript_write, file.scripts)
         \o BytesLE(Len(file.externals), 4) \o WriteVec(AssetExternal_write, file.externals)
         \o BytesBE(0, 4) \o WriteNullString(file.user_info), LAMBDA tail:
    Bind(objects_position + 24 * Len(file.assets) + Len(tail), LAMBDA meta_end:
    Bind(write_padding(meta_end, 16), LAMBDA pad16:
    Bind(Max(meta_end + Len(pad16) - base_position, MIN_DATA_OFFSET), LAMBDA data_offset:
    Bind(Max(meta_end + Len(pad16), base_position + data_offset), LAMBDA start:
    Bind(WriteAssetsLoop(file, start,
             [status  |-> "ok", data |-> <<>>, counts |-> <<>>, placed |-> <<>>,
              objects |-> [i \in 1..Len(file.assets) |-> DefaultObject]],
             1), LAMBDA w:
    Bind(w.data \o write_padding(start + Len(w.data), 4), LAMBDA data:
    Bind(IF w.status # "ok" THEN w.status
         ELSE IF Len(file.path_ids) > Len(w.objects) THEN "panic"
         ELSE "ok", LAMBDA status:
    Bind(WithPathIds(w.objects, file.path_ids), LAMBDA objects:
    Bind([file.header EXCEPT
             !.version = 22,
             !.meta_data_size = header_meta_data_size(meta_end - meta_data_base,
                                                      file.header.unity_version),
             !.file_size = start + Len(data) - base_position,
             !.data_offset = data_offset,
             !.platform = BytesLE(38, 4),
             !.enable_type_tree = 1], LAMBDA header:
        [status           |-> status,
         bytes            |-> IF status = "ok"
                              THEN AssetFileHeader_write(header) \o head \o pad_objects
                                   \o WriteVec(AssetFileObject_write, objects) \o tail
                                   \o Zeros(start - meta_end) \o data
                              ELSE reserved \o head \o pad_objects
                                   \o Zeros(24 * Len(file.assets)) \o tail
                                   \o Zeros(start - meta_end) \o w.data,
         counts           |-> w.counts,
         placed           |-> w.placed,
         objects          |-> objects,
         header           |-> header,
         meta_data_base   |-> meta_data_base,
         objects_position |-> objects_position,
         meta_end         |-> meta_end,
         start            |-> start,
         end_position     |-> start + Len(data)])))))))))))))))

(***************************************************************************)
(* Input asset files.  An input is the byte image of a file as some        *)
(* producer laid it out: a type table, an object table in any order, and   *)
(* a data section whose records lie in any physical order: aligned to 8,   *)
(* aligned to 8 with unused bytes before each record, packed back to       *)
(* back, or all at offset 0.                                               *)
(***************************************************************************)
MaxObjects == 2

MaxBlobLen == 4

UNKNOWN_HASH == [i \in 1..16 |-> i]

TextType ==
    [class_id |-> <<49, 0, 0, 0>>, is_stripped_type |-> 0, script_type_index |-> <<255, 255>>,
     script_id |-> Zeros(16), type_hash |-> TEXT_ASSET_HASH, node_count |-> 0,
     str_buffer_size |-> 1, nodes |-> <<>>, str_buffer |-> <<0>>, junk |-> Zeros(4)]

ScriptType ==
    [class_id |-> CLASS_ID_SCRIPT, is_stripped_type |-> 0, script_type_index |-> <<0, 0>>,
     script_id |-> [i \in 1..16 |-> 200 + i], type_hash |-> UNKNOWN_HASH, node_count |-> 1,
     str_buffer_size |-> 0, nodes |-> [i \in 1..32 |-> i], str_buffer |-> <<>>,
     junk |-> Zeros(4)]

InputTypes == <<TextType, ScriptType>>

InputHeader ==
    [junk |-> Zeros(8), version |-> 22, junk2 |-> Zeros(8), meta_data_size |-> 0,
     file_size |-> 0, data_offset |-> 0, junk3 |-> Zeros(8), unity_version |-> <<50, 48>>,
     platform |-> BytesLE(38, 4), enable_type_tree |-> 1]

InputExternal ==
    [unknown |-> <<>>, guid |-> [i \in 1..16 |-> 16 + i], ty |-> BytesLE(0, 4),
     path |-> <<120>>]

\* A TextAsset record as the engine lays it out at a 4-aligned position.
TextRecord(name, data) ==
    BytesLE(Len(name), 4) \o name \o Zeros((4 - (Len(name) % 4)) % 4)
    \o BytesLE(Len(data), 4) \o data

BlobPattern == <<7, 1, 2, 3, 4, 5, 6, 8>>

\* The records an input object may hold: [type_id, bytes]; type_id 2 is out
\* of range of the two declared types.
InputRecords ==
    {[type_id |-> 1, bytes |-> SubSeq(BlobPattern, 1, n)] : n \in {0, 1, MaxBlobLen}}
    \cup
    {[type_id |-> 0, bytes |-> TextRecord(<<97>>, <<5>>)],
     [type_id |-> 0, bytes |-> TextRecord(BOM \o BOM \o <<97>>, <<>>)],
     [type_id |-> 0, bytes |-> Zeros(3) \o TextRecord(<<98>>, <<6, 7>>)],
     [type_id |-> 0, bytes |-> BytesLE(9, 4) \o <<97>>],
     [type_id |-> 2, bytes |-> <<9>>]}

Packings == {"aligned", "spaced", "tight", "shared"}

Injective(f) == \A a, b \in DOMAIN f : f[a] = f[b] => a = b

\* The physical orders of n objects: phys[k] is the table entry (1-based)
\* of the k-th record of the data section.
PhysicalOrders(n) == {f \in [1..n -> 1..n] : Injective(f)}

\* The data section and the offset of every table entry.
\* acc = [data, offset] with offset[k] set for the entries placed so far.
RECURSIVE LayOut(_, _, _, _, _)
LayOut(records, phys, packing, k, acc) ==
    IF k > Len(phys) THEN acc
    ELSE
    Bind(CASE packing = "aligned" -> [i \in 1..((8 - (Len(acc.data) % 8)) % 8) |-> 170]
           [] packing = "spaced" -> [i \in 1..(16 - (Len(acc.data) % 8)) |-> 170]
           [] OTHER -> <<>>, LAMBDA gap:
        LayOut(records, phys, packing, k + 1,
               [data   |-> acc.data \o gap \o records[phys[k]].bytes,
                offset |-> [acc.offset EXCEPT ![phys[k]] =
                               IF packing = "shared" THEN 0 ELSE Len(acc.data) + Len(gap)]]))

\* The meta data of an input file whose header takes hsize bytes.
InputMeta(objects, hsize, ref_type_count) ==
    Bind(BytesLE(Len(InputTypes), 4) \o WriteVec(AssetFileType_write, InputTypes)
         \o BytesLE(Len(objects), 4), LAMBDA head:
        head \o Zeros((4 - ((hsize + Len(head)) % 4)) % 4)
        \o WriteVec(AssetFileObject_write, objects)
        \o BytesLE(1, 4) \o [i \in 1..12 |-> 30 + i]
        \o BytesLE(1, 4) \o AssetExternal_write(InputExternal)
        \o BytesLE(ref_type_count, 4) \o WriteNullString(<<117>>))

\* The byte image of an input file whose i-th table entry has path_ids[i].
InputFileWithIds(records, phys, packing, ref_type_count, path_ids) ==
    Bind(LayOut(records, phys, packing, 1,
                [data |-> <<>>, offset |-> [i \in 1..Len(records) |-> 0]]), LAMBDA lay:
    Bind(HEADER_FIXED_SIZE + Len(InputHeader.unity_version), LAMBDA hsize:
    Bind(InputMeta([i \in 1..Len(records) |-> [path_id |-> path_ids[i],
                                               offset  |-> lay.offset[i],
                                               size    |-> Len(records[i].bytes),
                                               type_id |-> records[i].type_id]],
                   hsize, ref_type_count), LAMBDA meta:
    Bind(AlignUp(hsize + Len(meta), 16), LAMBDA doff:
        AssetFileHeader_write([InputHeader EXCEPT !.meta_data_size = Len(meta) + 9,
                                                  !.file_size = doff + Len(lay.data),
                                                  !.data_offset = doff])
        \o meta \o Zeros(doff - (hsize + Len(meta))) \o lay.data))))

\* The byte image of an input file whose path ids all differ.
InputFile(records, phys, packing, ref_type_count) ==
    InputFileWithIds(records, phys, packing, ref_type_count,
                     [i \in 1..Len(records) |-> BytesLE(100 + i, 8)])

InputFiles ==
    UNION {{InputFile(records, phys, packing, ref) :
                records \in [1..n -> InputRecords],
                phys \in PhysicalOrders(n),
                packing \in Packings,
                ref \in {0, 1}} : n \in 0..MaxObjects}
    \cup
    {InputFileWithIds(records, phys, "aligned", 0, [i \in 1..MaxObjects |-> BytesLE(101, 8)]) :
        records \in [1..MaxObjects -> InputRecords], phys \in PhysicalOrders(MaxObjects)}

(***************************************************************************)
(* Bundles.  A u64 of the node table is kept at its width, as its eight    *)
(* bytes, least significant first: the sum and the difference of two of    *)
(* them are computed byte by byte with the carry, so that a sum that does  *)
(* not fit in 64 bits is seen.  A bundle value is [status, files]; a file  *)
(* is [name, kind, raw, assets] and the files are in IndexMap order.       *)
(***************************************************************************)
CHUNK_SIZE == 131072

BUNDLE_HEADER_SIZE == 64

MAGIC == <<85, 110, 105, 116, 121, 70, 83>>

MAJOR_VERSION == <<53, 46, 120, 46, 120>>

MINOR_VERSION == <<50, 48, 50, 48, 46, 51, 46, 49, 56, 102, 49>>

U64(n) == BytesLE(n, 8)

\* a + b on eight bytes: the wrapped sum and whether it overflowed.
RECURSIVE AddBytes(_, _, _)
AddBytes(a, b, carry) ==
    IF a = <<>> THEN [val |-> <<>>, overflow |-> carry = 1]
    ELSE Bind(AddBytes(Tail(a), Tail(b), (Head(a) + Head(b) + carry) \div 256), LAMBDA rest:
             [val      |-> <<(Head(a) + Head(b) + carry) % 256>> \o rest.val,
              overflow |-> rest.overflow])

U64Add(a, b) == AddBytes(a, b, 0)

\* a - b on eight bytes: the wrapped difference and whether it underflowed.
RECURSIVE SubBytes(_, _, _)
SubBytes(a, b, borrow) ==
    IF a = <<>> THEN [val |-> <<>>, overflow |-> borrow = 1]
    ELSE Bind(SubBytes(Tail(a), Tail(b), IF Head(a) - Head(b) - borrow < 0 THEN 1 ELSE 0),
              LAMBDA rest:
             [val      |-> <<(Head(a) - Head(b) - borrow + 256) % 256>> \o rest.val,
              overflow |-> rest.overflow])

U64Sub(a, b) == SubBytes(a, b, 0)

\* struct Header, big-endian: magic, #[brw(align_before = 4)] format_version,
\* the two version strings, the sizes and #[brw(align_after = 16)] flags.
\* The derive takes its directives from #[br]/#[bw]/#[brw]; the arguments
\* of #[binrw(...)] add none, and the reader checks no field.
Header_read(s) ==
    Bind(ReadNullString(s, 0), LAMBDA magic:
    IF ~magic.ok \/ ~Avail(s, AlignUp(magic.pos, 4), 4) THEN [ok |-> FALSE]
    ELSE
    Bind(ReadNullString(s, AlignUp(magic.pos, 4) + 4), LAMBDA major:
    IF ~major.ok THEN [ok |-> FALSE]
    ELSE
    Bind(ReadNullString(s, major.pos), LAMBDA minor:
    IF ~minor.ok \/ ~Avail(s, minor.pos, 20) THEN [ok |-> FALSE]
    ELSE [ok                |-> TRUE,
          magic             |-> magic.val,
          format_version    |-> ValBE(Take(s, AlignUp(magic.pos, 4), 4)),
          major_version     |-> major.val,
          minor_version     |-> minor.val,
          file_size         |-> ValBE(Take(s, minor.pos, 8)),
          compressed_size   |-> ValBE(Take(s, minor.pos + 8, 4)),
          decompressed_size |-> ValBE(Take(s, minor.pos + 12, 4)),
          flags             |-> ValBE(Take(s, minor.pos + 16, 4)),
          pos               |-> AlignUp(minor.pos + 20, 16)])))

Header_write(h) ==
    Bind(WriteNullString(h.magic), LAMBDA magic:
    Bind(magic \o Zeros(AlignUp(Len(magic), 4) - Len(magic)) \o BytesBE(h.format_version, 4)
         \o WriteNullString(h.major_version) \o WriteNullString(h.minor_version)
         \o BytesBE(h.file_size, 8) \o BytesBE(h.compressed_size, 4)
         \o BytesBE(h.decompressed_size, 4) \o BytesBE(h.flags, 4), LAMBDA fields:
        fields \o Zeros(AlignUp(Len(fields), 16) - Len(fields))))

\* struct Block, 10 bytes.
Block_read(s, pos) ==
    IF ~Avail(s, pos, 10) THEN [ok |-> FALSE, val |-> <<>>, pos |-> pos]
    ELSE [ok  |-> TRUE,
          val |-> [decompressed_size |-> ValBE(Take(s, pos, 4)),
                   compressed_size   |-> ValBE(Take(s, pos + 4, 4)),
                   flags             |-> ValBE(Take(s, pos + 8, 2))],
          pos |-> pos + 10]

Block_write(block) ==
    BytesBE(block.decompressed_size, 4) \o BytesBE(block.compressed_size, 4)
    \o BytesBE(block.flags, 2)

\* enum BundleFileType, #[brw(repr = u32)]
RAW_FILE_TYPE == 0

ASSETS_FILE_TYPE == 4

\* struct Node: a file type that is no variant of BundleFileType is an error.
Node_read(s, pos) ==
    IF ~Avail(s, pos, 20) THEN [ok |-> FALSE, val |-> <<>>, pos |-> pos]
    ELSE
    Bind(ValBE(Take(s, pos + 16, 4)), LAMBDA file_type:
    Bind(ReadNullString(s, pos + 20), LAMBDA path:
    IF file_type \notin {RAW_FILE_TYPE, ASSETS_FILE_TYPE} \/ ~path.ok
    THEN [ok |-> FALSE, val |-> <<>>, pos |-> pos]
    ELSE [ok  |-> TRUE,
          val |-> [offset    |-> Reverse(Take(s, pos, 8)),
                   size      |-> Reverse(Take(s, pos + 8, 8)),
                   file_type |-> file_type,
                   path      |-> path.val],
          pos |-> path.pos]))

Node_write(node) ==
    Reverse(node.offset) \o Reverse(node.size) \o BytesBE(node.file_type, 4)
    \o WriteNullString(node.path)

\* struct MetaData, big-endian.
MetaData_read(s) ==
    IF ~Avail(s, 0, 16) THEN [ok |-> FALSE]
    ELSE
    Bind(ReadCounted_BE(Block_read, s, 16), LAMBDA blocks:
    IF ~blocks.ok THEN [ok |-> FALSE]
    ELSE
    Bind(ReadCounted_BE(Node_read, s, blocks.pos), LAMBDA nodes:
    IF ~nodes.ok THEN [ok |-> FALSE]
    ELSE [ok |-> TRUE, guid |-> Take(s, 0, 16), blocks |-> blocks.val, nodes |-> nodes.val]))

MetaData_write(meta_data) ==
    meta_data.guid \o BytesBE(Len(meta_data.blocks), 4) \o WriteVec(Block_write, meta_data.blocks)
    \o BytesBE(Len(meta_data.nodes), 4) \o WriteVec(Node_write, meta_data.nodes)

\* The meta data block of `size` bytes at `at`, decompressed by the scheme of
\* the low six bits of the flags and decoded; the cursor is left at resume.
\* The model's bundles store their meta data and blocks uncompressed: the
\* LZMA and LZ4 decoders are outside it ("codec").
ReadMetaData(s, header, at, resume) ==
    IF ~Avail(s, at, header.compressed_size) THEN [status |-> "err"]
    ELSE CASE header.flags % 64 = 0 ->
                Bind(MetaData_read(Take(s, at, header.compressed_size)), LAMBDA meta_data:
                    IF ~meta_data.ok THEN [status |-> "err"]
                    ELSE [status |-> "ok", meta_data |-> meta_data, pos |-> resume])
           [] header.flags % 64 \in {1, 2, 3} -> [status |-> "codec"]
           [] OTHER -> [status |-> "err"]

\* fn read_header_and_meta_data: with bit 0x80 the block lies at
\* file_size - compressed_size and the cursor returns behind the header.
read_header_and_meta_data(s, build) ==
    Bind(Header_read(s), LAMBDA header:
        IF ~header.ok THEN [status |-> "err"]
        ELSE IF (header.flags \div 128) % 2 = 1
        THEN IF header.file_size < header.compressed_size
             THEN [status |-> IF build = "debug" THEN "panic" ELSE "err"]
             ELSE ReadMetaData(s, header, header.file_size - header.compressed_size, header.pos)
        ELSE ReadMetaData(s, header, header.pos, header.pos + header.compressed_size))

\* The length a nibble of an LZ4 token stands for: the nibble, or with
\* nibble 15 the nibble plus the bytes that follow up to and including the
\* first below 255.  [ok, len, pos]: pos is the (1-based) index after it.
Lz4Length(src, nibble, i) ==
    IF nibble < 15 THEN [ok |-> TRUE, len |-> nibble, pos |-> i]
    ELSE IF \A k \in i..Len(src) : src[k] = 255 THEN [ok |-> FALSE, len |-> 0, pos |-> i]
    ELSE Bind(CHOOSE k \in i..Len(src) : src[k] # 255 /\ \A j \in i..(k - 1) : src[j] = 255,
              LAMBDA last:
             [ok |-> TRUE, len |-> 15 + 255 * (last - i) + src[last], pos |-> last + 1])

\* The bytes of an LZ4 length above the nibble: n is the length minus 15.
Lz4LengthBytes(n) == [k \in 1..(n \div 255) |-> 255] \o <<n % 255>>

\* An LZ4 match: len bytes copied from offset bytes back, byte by byte, so
\* that a match longer than its offset repeats.
Lz4Match(output, offset, len) ==
    output \o [k \in 1..len |-> output[Len(output) - offset + 1 + ((k - 1) % offset)]]

\* lz4_flex::block::decompress from the sequence at index i on: the token,
\* the literals, and unless the input ends there the offset and the match.
\* The output may not outgrow `size`.
RECURSIVE Lz4Sequences(_, _, _, _)
Lz4Sequences(src, i, output, size) ==
    IF i > Len(src) THEN [ok |-> TRUE, bytes |-> output]
    ELSE
    Bind(Lz4Length(src, src[i] \div 16, i + 1), LAMBDA lit:
    IF ~lit.ok \/ lit.pos + lit.len - 1 > Len(src) \/ Len(output) + lit.len > size
    THEN [ok |-> FALSE, bytes |-> <<>>]
    ELSE
    Bind(output \o SubSeq(src, lit.pos, lit.pos + lit.len - 1), LAMBDA copied:
    Bind(lit.pos + lit.len, LAMBDA p:
    IF p > Len(src) THEN [ok |-> TRUE, bytes |-> copied]
    ELSE IF p + 1 > Len(src) THEN [ok |-> FALSE, bytes |-> <<>>]
    ELSE
    Bind(src[p] + 256 * src[p + 1], LAMBDA offset:
    Bind(Lz4Length(src, src[i] % 16, p + 2), LAMBDA match:
    IF ~match.ok \/ offset = 0 \/ offset > Len(copied)
       \/ Len(copied) + match.len + 4 > size
    THEN [ok |-> FALSE, bytes |-> <<>>]
    ELSE Lz4Sequences(src, match.pos, Lz4Match(copied, offset, match.len + 4), size))))))

\* lz4_flex::block::decompress(input, min_uncompressed_size)
Lz4Decompress(src, size) == Lz4Sequences(src, 1, <<>>, size)

\* lz4_flex::block::compress: a block that decompresses to the input; the
\* one kept here is the single run of literals.
Lz4Compress(bytes) ==
    IF Len(bytes) < 15 THEN <<16 * Len(bytes)>> \o bytes
    ELSE <<240>> \o Lz4LengthBytes(Len(bytes) - 15) \o bytes

\* The block loop with every block put before the ones already read.
RECURSIVE ReadBlocks_prepending(_, _, _, _, _)
ReadBlocks_prepending(s, pos, blocks, i, blob) ==
    IF i > Len(blocks) THEN [status |-> "ok", blob |-> blob]
    ELSE IF ~Avail(s, pos, blocks[i].compressed_size) THEN [status |-> "err", blob |-> blob]
    ELSE IF blocks[i].flags % 64 # 0 THEN [status |-> "err", blob |-> blob]
    ELSE ReadBlocks_prepending(s, pos + blocks[i].compressed_size, blocks, i + 1,
                               Take(s, pos, blocks[i].compressed_size) \o blob)

\* The block loop of Bundle::from_slice from block i on.
RECURSIVE ReadBlocks(_, _, _, _, _)
ReadBlocks(s, pos, blocks, i, blob) ==
    IF i > Len(blocks) THEN [status |-> "ok", blob |-> blob]
    ELSE IF ~Avail(s, pos, blocks[i].compressed_size) THEN [status |-> "err", blob |-> blob]
    ELSE CASE blocks[i].flags % 64 = 0 ->
                ReadBlocks(s, pos + blocks[i].compressed_size, blocks, i + 1,
                           blob \o Take(s, pos, blocks[i].compressed_size))
           [] blocks[i].flags % 64 = 1 -> [status |-> "codec", blob |-> blob]
           [] blocks[i].flags % 64 \in {2, 3} ->
                Bind(Lz4Decompress(Take(s, pos, blocks[i].compressed_size),
                                   blocks[i].decompressed_size), LAMBDA plain:
                    IF ~plain.ok THEN [status |-> "err", blob |-> blob]
                    ELSE ReadBlocks(s, pos + blocks[i].compressed_size, blocks, i + 1,
                                    blob \o plain.bytes))
           [] OTHER -> [status |-> "err", blob |-> blob]

\* node.path.to_string(): the lossy UTF-8 decoding of the bytes.
PathToString(path) == Utf8Decode(path, 1)

\* IndexMap::insert: a new key goes last, a key already there keeps its
\* place and takes the new value.
RECURSIVE IndexMapInsert(_, _)
IndexMapInsert(files, file) ==
    IF files = <<>> THEN <<file>>
    ELSE IF Head(files).name = file.name THEN <<file>> \o Tail(files)
    ELSE <<Head(files)>> \o IndexMapInsert(Tail(files), file)

\* The file a node of the blob becomes: the slice, or the asset file read
\* from a cursor over the slice.
BundleFileOf(node, slice) ==
    IF node.file_type = RAW_FILE_TYPE
    THEN [status |-> "ok",
          file   |-> [name |-> PathToString(node.path), kind |-> "Raw", raw |-> slice,
                      assets |-> NoFile]]
    ELSE Bind(AssetFile_read(slice), LAMBDA read:
             [status |-> read.status,
              file   |-> [name |-> PathToString(node.path), kind |-> "Assets", raw |-> <<>>,
                          assets |-> read.file]])

\* The node loop of Bundle::from_slice from node i on.  With overflow
\* checks (debug) offset + size and end - start panic when they leave the
\* 64 bits; without them (release) they wrap.  blob[start..end] panics
\* when start > end.
RECURSIVE ReadNodes(_, _, _, _, _)
ReadNodes(blob, nodes, i, files, build) ==
    IF i > Len(nodes) THEN [status |-> "ok", files |-> files]
    ELSE
    Bind(nodes[i].offset, LAMBDA start:
    Bind(U64Add(nodes[i].offset, nodes[i].size), LAMBDA end:
    IF build = "debug" /\ end.overflow THEN [status |-> "panic", files |-> <<>>]
    ELSE
    Bind(U64Sub(end.val, start), LAMBDA length:
    IF build = "debug" /\ length.overflow THEN [status |-> "panic", files |-> <<>>]
    ELSE IF length.val = U64(0) THEN ReadNodes(blob, nodes, i + 1, files, build)
    ELSE IF ValLE(end.val) > Len(blob) \/ ValLE(start) >= Len(blob)
    THEN [status |-> "err", files |-> <<>>]
    ELSE IF ValLE(start) > ValLE(end.val) THEN [status |-> "panic", files |-> <<>>]
    ELSE
    Bind(BundleFileOf(nodes[i], Take(blob, ValLE(start), ValLE(end.val) - ValLE(start))),
         LAMBDA made:
        IF made.status # "ok" THEN [status |-> made.status, files |-> <<>>]
        ELSE ReadNodes(blob, nodes, i + 1, IndexMapInsert(files, made.file), build)))))

NoBundle ==
    [status |-> "none", files |-> <<>>, nodes |-> <<>>, blob_len |-> 0, blocks |-> <<>>]

\* Bundle::from_slice; the node table, the block table and the length of
\* the blob are kept beside the outcome.
Bundle_from_slice(s, build) ==
    Bind(read_header_and_meta_data(s, build), LAMBDA meta:
    IF meta.status # "ok" THEN [NoBundle EXCEPT !.status = meta.status]
    ELSE
    Bind(ReadBlocks(s, meta.pos, meta.meta_data.blocks, 1, <<>>), LAMBDA blocks:
    IF blocks.status # "ok" THEN [NoBundle EXCEPT !.status = blocks.status]
    ELSE
    Bind(ReadNodes(blocks.blob, meta.meta_data.nodes, 1, <<>>, build), LAMBDA made:
        [status   |-> made.status,
         files    |-> made.files,
         nodes    |-> meta.meta_data.nodes,
         blob_len |-> Len(blocks.blob),
         blocks   |-> meta.meta_data.blocks])))

\* The first loop of serialize_with_block_compression from file i on:
\* acc = [status, blob, nodes].
RECURSIVE WriteFiles(_, _, _)
WriteFiles(files, i, acc) ==
    IF i > Len(files) THEN acc
    ELSE
    Bind(IF files[i].kind = "Raw" THEN [status |-> "ok", bytes |-> files[i].raw]
         ELSE AssetFile_write(files[i].assets, Len(acc.blob)), LAMBDA written:
    IF written.status # "ok" THEN [acc EXCEPT !.status = written.status]
    ELSE WriteFiles(files, i + 1,
             [acc EXCEPT !.blob  = acc.blob \o written.bytes,
                         !.nodes = Append(acc.nodes,
                                      [offset    |-> U64(Len(acc.blob)),
                                       size      |-> U64(Len(written.bytes)),
                                       file_type |-> IF files[i].kind = "Raw" THEN RAW_FILE_TYPE
                                                     ELSE ASSETS_FILE_TYPE,
                                       path      |-> AsBytes(files[i].name)])]))

\* The chunk loop recording for every block the length of the chunk as its
\* compressed size.
RECURSIVE WriteChunks_plain_sizes(_, _, _, _)
WriteChunks_plain_sizes(blob, chunk_start, compression_type, acc) ==
    IF chunk_start >= Len(blob) THEN acc
    ELSE IF compression_type = "Lzma" THEN [acc EXCEPT !.status = "err"]
    ELSE
    Bind(Min(chunk_start + CHUNK_SIZE, Len(blob)), LAMBDA chunk_end:
    Bind(IF compression_type = "Lz4"
         THEN Lz4Compress(Take(blob, chunk_start, chunk_end - chunk_start))
         ELSE Take(blob, chunk_start, chunk_end - chunk_start), LAMBDA chunk_buffer:
        WriteChunks_plain_sizes(blob, chunk_start + CHUNK_SIZE, compression_type,
            [acc EXCEPT !.blocks = Append(acc.blocks,
                                      [decompressed_size |-> chunk_end - chunk_start,
                                       compressed_size   |-> chunk_end - chunk_start,
                                       flags             |-> IF compression_type = "Lz4"
                                                             THEN 3 ELSE 0]),
                        !.compressed = acc.compressed \o chunk_buffer])))

\* The chunk loop from chunk_start on: acc = [status, blocks, compressed].
RECURSIVE WriteChunks(_, _, _, _)
WriteChunks(blob, chunk_start, compression_type, acc) ==
    IF chunk_start >= Len(blob) THEN acc
    ELSE CASE compression_type = "Uncompressed" ->
                Bind(Min(chunk_start + CHUNK_SIZE, Len(blob)), LAMBDA chunk_end:
                    WriteChunks(blob, chunk_start + CHUNK_SIZE, compression_type,
                        [acc EXCEPT !.blocks = Append(acc.blocks,
                                                  [decompressed_size |-> chunk_end - chunk_start,
                                                   compressed_size   |-> chunk_end - chunk_start,
                                                   flags             |-> 0]),
                                    !.compressed = acc.compressed
                                                   \o Take(blob, chunk_start, chunk_end - chunk_start)]))
           [] compression_type = "Lzma" -> [acc EXCEPT !.status = "err"]
           [] OTHER ->
                Bind(Min(chunk_start + CHUNK_SIZE, Len(blob)), LAMBDA chunk_end:
                Bind(Lz4Compress(Take(blob, chunk_start, chunk_end - chunk_start)),
                     LAMBDA chunk_buffer:
                    WriteChunks(blob, chunk_start + CHUNK_SIZE, compression_type,
                        [acc EXCEPT !.blocks = Append(acc.blocks,
                                                  [decompressed_size |-> chunk_end - chunk_start,
                                                   compressed_size   |-> Len(chunk_buffer),
                                                   flags             |-> 3]),
                                    !.compressed = acc.compressed \o chunk_buffer])))

NoImage == [status |-> "none", bytes |-> <<>>, nodes |-> <<>>]

\* The header with the file size taken as the bytes behind the header.
serialize_header_short(meta_data_buffer, compressed_blob) ==
    [magic             |-> MAGIC,
     format_version    |-> 7,
     major_version     |-> MAJOR_VERSION,
     minor_version     |-> MINOR_VERSION,
     file_size         |-> Len(compressed_blob) + Len(meta_data_buffer),
     compressed_size   |-> Len(meta_data_buffer),
     decompressed_size |-> Len(meta_data_buffer),
     flags             |-> 64]

\* The header serialize builds for the meta data and the blocks emitted.
serialize_header(meta_data_buffer, compressed_blob) ==
    [magic             |-> MAGIC,
     format_version    |-> 7,
     major_version     |-> MAJOR_VERSION,
     minor_version     |-> MINOR_VERSION,
     file_size         |-> Len(compressed_blob) + Len(meta_data_buffer) + BUNDLE_HEADER_SIZE,
     compressed_size   |-> Len(meta_data_buffer),
     decompressed_size |-> Len(meta_data_buffer),
     flags             |-> 64]

\* Bundle::serialize_with_block_compression
serialize_with_block_compression(files, compression_type) ==
    Bind(WriteFiles(files, 1, [status |-> "ok", blob |-> <<>>, nodes |-> <<>>]), LAMBDA laid:
    IF laid.status # "ok" THEN [NoImage EXCEPT !.status = laid.status]
    ELSE
    Bind(WriteChunks(laid.blob, 0, compression_type,
                     [status |-> "ok", blocks |-> <<>>, compressed |-> <<>>]), LAMBDA chunked:
    IF chunked.status # "ok" THEN [NoImage EXCEPT !.status = chunked.status]
    ELSE
    Bind(MetaData_write([guid |-> Zeros(16), blocks |-> chunked.blocks, nodes |-> laid.nodes]),
         LAMBDA meta_data_buffer:
        [status |-> "ok",
         bytes  |-> Header_write(serialize_header(meta_data_buffer, chunked.compressed))
                    \o meta_data_buffer \o chunked.compressed,
         nodes  |-> laid.nodes])))

\* Bundle::serialize
Bundle_serialize(files) == serialize_with_block_compression(files, "Uncompressed")

\* IndexMap::remove, which is swap_remove: the last entry takes the place
\* of the one removed.  [found, file, files]
IndexMapRemove(files, key) ==
    IF \A i \in 1..Len(files) : files[i].name # key
    THEN [found |-> FALSE, file |-> <<>>, files |-> files]
    ELSE Bind(CHOOSE i \in 1..Len(files) : files[i].name = key, LAMBDA at:
             [found |-> TRUE,
              file  |-> files[at],
              files |-> [i \in 1..(Len(files) - 1) |->
                            IF i = at THEN files[Len(files)] ELSE files[i]]])

\* Bundle::rename
rename(files, original_file_name, new_file_name) ==
    Bind(IndexMapRemove(files, original_file_name), LAMBDA removed:
        IF removed.found
        THEN [ok    |-> TRUE,
              files |-> IndexMapInsert(removed.files,
                                       [removed.file EXCEPT !.name = new_file_name])]
        ELSE [ok |-> FALSE, files |-> files])

\* Bundle::get_cab: the first key of 36 bytes that starts with "CAB-".
RECURSIVE get_cab(_)
get_cab(files) ==
    IF files = <<>> THEN [found |-> FALSE, name |-> <<>>]
    ELSE IF Len(AsBytes(Head(files).name)) = 36
            /\ SubSeq(Head(files).name, 1, 4) = <<67, 65, 66, 45>>
    THEN [found |-> TRUE, name |-> Head(files).name]
    ELSE get_cab(Tail(files))

\* Bundle::rename_cab
rename_cab(files, new_file_name) ==
    IF get_cab(files).found THEN rename(files, get_cab(files).name, new_file_name)
    ELSE [ok |-> FALSE, files |-> files]

\* The first index from i on of a file of kind Assets, 0 if there is none.
RECURSIVE FirstAssetsFile(_, _)
FirstAssetsFile(files, i) ==
    IF i > Len(files) THEN 0
    ELSE IF files[i].kind = "Assets" THEN i ELSE FirstAssetsFile(files, i + 1)

\* The first index from i on of a Text asset, 0 if there is none.
RECURSIVE FirstText(_, _)
FirstText(assets, i) ==
    IF i > Len(assets) THEN 0
    ELSE IF assets[i].variant = "Text" THEN i ELSE FirstText(assets, i + 1)

\* TextBundle::get_asset: the first Text asset of the first asset file.
get_asset(files) ==
    Bind(FirstAssetsFile(files, 1), LAMBDA f:
        IF f = 0 THEN [ok |-> FALSE, file |-> 0, asset |-> 0]
        ELSE Bind(FirstText(files[f].assets.assets, 1), LAMBDA a:
                 [ok |-> a # 0, file |-> f, asset |-> a]))

\* TextBundle::replace_raw: asset.data.items = new_data
replace_raw(files, new_data) ==
    Bind(get_asset(files), LAMBDA found:
        IF ~found.ok THEN [ok |-> FALSE, files |-> files]
        ELSE [ok    |-> TRUE,
              files |-> [files EXCEPT ![found.file].assets.assets[found.asset].data = new_data]])

\* TextBundle::take_raw: std::mem::take(&mut text.data.items)
take_raw(files) ==
    Bind(get_asset(files), LAMBDA found:
        IF ~found.ok THEN [ok |-> FALSE, data |-> <<>>, files |-> files]
        ELSE [ok    |-> TRUE,
              data  |-> files[found.file].assets.assets[found.asset].data,
              files |-> [files EXCEPT ![found.file].assets.assets[found.asset].data = <<>>]])

(***************************************************************************)
(* Input bundles.  An input is the byte image of a bundle as some producer *)
(* laid it out: header, meta data (behind the header or, with flag 0x80,   *)
(* at the end) and the blob, stored in two blocks.                         *)
(***************************************************************************)
MaxRawLen == 4

MaxNewData == 5

CAB_NAME == <<67, 65, 66, 45>> \o [i \in 1..32 |-> 48 + (i % 10)]

RES_NAME == CAB_NAME \o <<46, 114, 101, 115, 83>>

U64_MAX == [i \in 1..8 |-> 255]

U64_HIGH == [i \in 1..8 |-> IF i = 8 THEN 128 ELSE 0]

InputNode(offset, size, file_type, path) ==
    [offset |-> offset, size |-> size, file_type |-> file_type, path |-> path]

\* The blocks a producer stores a blob in: none, one, or a first block of
\* one byte and a second of the rest.
InputBlocks(blob) ==
    [i \in 1..Min(Len(blob), 2) |->
        [decompressed_size |-> IF Len(blob) = 1 \/ i = 2 THEN Len(blob) - (i - 1) ELSE 1,
         compressed_size   |-> IF Len(blob) = 1 \/ i = 2 THEN Len(blob) - (i - 1) ELSE 1,
         flags             |-> 0]]

\* The byte image of a bundle whose blocks hold `stored`.
StoredBundle(nodes, blocks, stored, at_end) ==
    Bind(MetaData_write([guid |-> [i \in 1..16 |-> i], blocks |-> blocks,
                         nodes |-> nodes]), LAMBDA meta:
    Bind(Header_write([magic             |-> MAGIC,
                       format_version    |-> 7,
                       major_version     |-> MAJOR_VERSION,
                       minor_version     |-> MINOR_VERSION,
                       file_size         |-> BUNDLE_HEADER_SIZE + Len(meta) + Len(stored),
                       compressed_size   |-> Len(meta),
                       decompressed_size |-> Len(meta),
                       flags             |-> IF at_end THEN 192 ELSE 64]), LAMBDA header:
        IF at_end THEN header \o stored \o meta ELSE header \o meta \o stored))

\* The byte image of an input bundle.
InputBundle(nodes, blob, at_end) == StoredBundle(nodes, InputBlocks(blob), blob, at_end)

\* An LZ4 block of a producer that finds matches: the literals up to the
\* first byte that repeats at least four more times, the repeats as one
\* match of offset 1, and the rest as the literals of the last sequence.
Lz4CompressRun(bytes) ==
    Bind({p \in 1..(Len(bytes) - 4) : \A k \in 1..4 : bytes[p + k] = bytes[p]}, LAMBDA runs:
    IF runs = {} THEN Lz4Compress(bytes)
    ELSE
    Bind(CHOOSE p \in runs : \A q \in runs : p <= q, LAMBDA p:
    Bind(CHOOSE n \in 4..(Len(bytes) - p) :
            /\ \A k \in 1..n : bytes[p + k] = bytes[p]
            /\ n = Len(bytes) - p \/ bytes[p + n + 1] # bytes[p], LAMBDA n:
        <<16 * Min(p, 15) + Min(n - 4, 15)>>
        \o (IF p >= 15 THEN Lz4LengthBytes(p - 15) ELSE <<>>)
        \o SubSeq(bytes, 1, p)
        \o <<1, 0>>
        \o (IF n - 4 >= 15 THEN Lz4LengthBytes(n - 19) ELSE <<>>)
        \o Lz4Compress(SubSeq(bytes, p + n + 1, Len(bytes))))))

\* The byte image of an input bundle whose blob is stored in one LZ4 block.
Lz4InputBundle(nodes, blob) ==
    StoredBundle(nodes,
                 <<[decompressed_size |-> Len(blob),
                    compressed_size   |-> Len(Lz4CompressRun(blob)),
                    flags             |-> 3]>>,
                 Lz4CompressRun(blob), FALSE)

\* The record lists of the asset files the input bundles hold.
BundleRecordLists ==
    {<<>>,
     <<[type_id |-> 0, bytes |-> TextRecord(<<97>>, <<5>>)]>>,
     <<[type_id |-> 1, bytes |-> <<7>>], [type_id |-> 0, bytes |-> TextRecord(<<97>>, <<5>>)]>>,
     <<[type_id |-> 1, bytes |-> SubSeq(BlobPattern, 1, MaxBlobLen)],
       [type_id |-> 0, bytes |-> TextRecord(<<97>>, <<5>>)]>>,
     <<[type_id |-> 1, bytes |-> SubSeq(BlobPattern, 1, MaxBlobLen)]>>,
     <<[type_id |-> 0, bytes |-> TextRecord(<<97>>, <<5>>)],
       [type_id |-> 0, bytes |-> TextRecord(<<98>>, <<6, 7>>)]>>}

BundleAssetFiles ==
    {InputFile(records, [i \in 1..Len(records) |-> i], "aligned", 0) :
        records \in BundleRecordLists}

RawContents == {SubSeq(BlobPattern, 1, n) : n \in {1, MaxRawLen}}

\* The layouts of an asset file a and a raw file r in a blob: [nodes, blob].
Layouts(a, r) ==
    {[nodes |-> <<InputNode(U64(0), U64(Len(a)), ASSETS_FILE_TYPE, CAB_NAME)>>,
      blob  |-> a],
     [nodes |-> <<InputNode(U64(0), U64(Len(r)), RAW_FILE_TYPE, RES_NAME),
                  InputNode(U64(16), U64(Len(a)), ASSETS_FILE_TYPE, CAB_NAME)>>,
      blob  |-> r \o Zeros(16 - Len(r)) \o a],
     [nodes |-> <<InputNode(U64(0), U64(Len(a)), ASSETS_FILE_TYPE, CAB_NAME),
                  InputNode(U64(Len(a)), U64(Len(r)), RAW_FILE_TYPE, RES_NAME)>>,
      blob  |-> a \o r],
     [nodes |-> <<InputNode(U64(7), U64(0), RAW_FILE_TYPE, RES_NAME),
                  InputNode(U64(0), U64(Len(a)), ASSETS_FILE_TYPE, CAB_NAME)>>,
      blob  |-> a]}

\* Offsets and sizes of a node over a blob of MaxRawLen bytes, up to the
\* ends of the 64 bits.
NodeOffsets == {U64(0), U64(1), U64(MaxRawLen), U64_HIGH, U64_MAX}

NodeSizes == {U64(0), U64(1), U64(MaxRawLen), U64(MaxRawLen + 1), U64_HIGH, U64_MAX}

InputBundles ==
    UNION {{InputBundle(lay.nodes, lay.blob, at_end) : lay \in Layouts(a, r)} :
              a \in BundleAssetFiles, r \in RawContents, at_end \in BOOLEAN}
    \cup
    {InputBundle(<<InputNode(offset, size, RAW_FILE_TYPE, RES_NAME)>>,
                 SubSeq(BlobPattern, 1, MaxRawLen), FALSE) :
        offset \in NodeOffsets, size \in NodeSizes}
    \cup
    {InputBundle(<<InputNode(U64(0), U64(1), RAW_FILE_TYPE, RES_NAME),
                   InputNode(U64(1), U64(MaxRawLen - 1), RAW_FILE_TYPE, RES_NAME)>>,
                 SubSeq(BlobPattern, 1, MaxRawLen), FALSE)}

\* A raw file one byte longer than a chunk of the blob.
LongRaw == [i \in 1..(CHUNK_SIZE + 1) |-> i % 251]

\* The input bundles of a serialize with a chosen block compression: the
\* bundle without files, bundles stored in plain and in LZ4 blocks, and one
\* whose blob takes two chunks.
CodecInputs ==
    {InputBundle(<<>>, <<>>, FALSE),
     InputBundle(<<InputNode(U64(0), U64(Len(LongRaw)), RAW_FILE_TYPE, RES_NAME)>>,
                 LongRaw, FALSE)}
    \cup
    UNION {{InputBundle(lay.nodes, lay.blob, FALSE), Lz4InputBundle(lay.nodes, lay.blob)} :
              lay \in UNION {Layouts(a, r) : a \in BundleAssetFiles, r \in RawContents}}

\* The names a file is renamed to, none of them a key of an input bundle,
\* and the names a caller asks to rename.
NEW_CAB_NAME == <<67, 65, 66, 45>> \o [i \in 1..32 |-> 97 + (i % 6)]

NewNames == {NEW_CAB_NAME, RES_NAME \o <<50>>}

OldNames == {CAB_NAME, RES_NAME, <<120>>}

\* A Texture2D record as the decoder expects it at a 4-aligned position.
Texture2DRecord(name, texture_format, platform_blob, image_data, path) ==
    Bind(TextRecord(name, <<>>), LAMBDA named:
    Bind(SubSeq(named, 1, Len(named) - 4)
         \o <<255, 255, 255, 255, 0, 1, 0, 0>>
         \o [i \in 1..16 |-> i] \o BytesLE(texture_format, 4) \o [i \in 1..52 |-> 100 + i]
         \o BytesLE(Len(platform_blob), 4) \o platform_blob, LAMBDA fixed:
    Bind(fixed \o Zeros((4 - (Len(fixed) % 4)) % 4)
         \o BytesLE(Len(image_data), 4) \o image_data \o BytesLE(64, 8) \o BytesLE(32, 4),
         LAMBDA streamed:
        streamed \o Zeros((4 - (Len(streamed) % 4)) % 4) \o BytesLE(Len(path), 4) \o path
        \o Zeros((4 - (Len(path) % 4)) % 4))))

RecordNames == {<<>>, <<97>>, <<97, 98, 99, 100>>}

\* The records one decoder is handed, with the type hash of each:
\* [hash, bytes].  Texture formats 0 and 37 are not declared.
RecordInputs ==
    {[hash |-> TEXT_ASSET_HASH, bytes |-> TextRecord(name, SubSeq(BlobPattern, 1, n))] :
        name \in RecordNames, n \in 0..MaxBlobLen}
    \cup
    {[hash  |-> TEXTURE_2D_HASH,
      bytes |-> Texture2DRecord(name, format, SubSeq(BlobPattern, 1, p),
                                SubSeq(BlobPattern, 1, n), path)] :
        name \in RecordNames, format \in {0, 1, 37, 48, 74}, p \in {0, 1},
        n \in {0, 1, MaxBlobLen}, path \in {<<>>, <<97, 46, 114, 101, 115, 83>>}}
    \cup
    {[hash |-> UNKNOWN_HASH, bytes |-> SubSeq(BlobPattern, 1, n)] : n \in 0..MaxBlobLen}

\* A record and the record cut short by its last byte.
WholeOrCut(bytes) == {bytes, SubSeq(bytes, 1, Len(bytes) - 1)}

\* The stream positions a record is decoded at.
Origins == {0, 8}

\* The path id of the object the record belongs to.
RecordPathId == BytesLE(9, 8)

CompressionTypes == {"Lz4", "Lzma", "Uncompressed"}

NewData == {<<>>, <<9>>, [i \in 1..MaxNewData |-> 10 + i]}

Builds == {"debug", "release"}

(***************************************************************************)
(* Input type hashes: the known constants, and hashes that are none of     *)
(* them, some one byte away from a constant.                               *)
(***************************************************************************)
MaxFlip == 2

Flip(h, i) == [h EXCEPT ![i] = (h[i] + 1) % 256]

DispatchHashes ==
    KNOWN_HASHES \cup {Flip(h, i) : h \in KNOWN_HASHES, i \in 1..MaxFlip}
    \cup {UNKNOWN_HASH, Zeros(16)}

\* The value the arm of Asset::read_options taken for args builds once its
\* record is read; of a known variant only the constructor is kept.
Asset_dispatch(args) ==
    IF DispatchVariant(args.type_hash) = "Unparsed"
    THEN Unparsed_read(<<>>, 0, args).val
    ELSE [variant |-> DispatchVariant(args.type_hash)]

(***************************************************************************)
(* State.  pc is the step a run has reached and input the bytes it was     *)
(* given.  rd, file, out and again belong to the asset-file round trip;    *)
(* hash, asset and hashed to the dispatch of one record; build, bundle,    *)
(* new_data, image, reloaded and taken to the bundle round trip.  out2 is  *)
(* the second write of an asset file; compression, packed and unpacked     *)
(* belong to a serialize with a chosen block compression; origin,          *)
(* consumed and encoded to the codec of one record; found to a lookup by   *)
(* path id.  error_message is the thread-local ERROR_MESSAGE of every      *)
(* thread at the FFI boundary, last_result what the last call that         *)
(* returns an FfiResult returned on the thread, and returned what          *)
(* astra_get_error_message gave when it was the last call on the thread.   *)
(***************************************************************************)
VARIABLES pc, input, rd, file, out, again, hash, asset, hashed,
          build, bundle, new_data, image, reloaded, taken,
          out2, compression, packed, unpacked, origin, consumed, encoded,
          found, error_message, last_result, returned

assetVars == <<rd, file, out, again>>

dispatchVars == <<hash, asset, hashed>>

bundleVars == <<build, bundle, new_data, image, reloaded, taken>>

ffiVars == <<error_message, last_result, returned>>

extraVars ==
    <<out2, compression, packed, unpacked, origin, consumed, encoded, found, ffiVars>>

vars == <<pc, input, assetVars, dispatchVars, bundleVars, extraVars>>

NoOut ==
    [status |-> "none", bytes |-> <<>>, counts |-> <<>>, placed |-> <<>>, objects |-> <<>>,
     header |-> NoHeader, meta_data_base |-> 0, objects_position |-> 0, meta_end |-> 0,
     start |-> 0, end_position |-> 0]

NoRead == [status |-> "none", file |-> NoFile, rd |-> NewReader]

NoAsset == [variant |-> "none"]

NoData == [set |-> FALSE, data |-> <<>>]

NoTaken == [status |-> "none", data |-> <<>>]

AssetIdle == rd = NewReader /\ file = NoFile /\ out = NoOut /\ again = NoRead

DispatchIdle == hash = <<>> /\ asset = NoAsset /\ hashed = <<>>

NoLookup == [asked |-> <<>>, shared |-> <<>>, exclusive |-> <<>>]

FfiIdle == error_message = <<>> /\ last_result = <<>> /\ returned = <<>>

ExtraIdle ==
    /\ out2 = NoOut
    /\ compression = "none"
    /\ packed = NoImage
    /\ unpacked = NoBundle
    /\ origin = 0
    /\ consumed = 0
    /\ encoded = <<>>
    /\ found = NoLookup
    /\ FfiIdle

BundleIdle ==
    /\ build = "none"
    /\ bundle = NoBundle
    /\ new_data = NoData
    /\ image = NoImage
    /\ reloaded = NoBundle
    /\ taken = NoTaken

(***************************************************************************)
(* The asset-file round trip: AssetFile::read_le field by field, then      *)
(* write_le into an empty vector, then read_le of the bytes written.       *)
(***************************************************************************)
Init ==
    /\ pc = "read"
    /\ input \in InputFiles
    /\ AssetIdle
    /\ DispatchIdle
    /\ BundleIdle
    /\ ExtraIdle

\* One field of AssetFile::read_le; the last one builds the value.
ReadField ==
    /\ pc = "read"
    /\ rd' = ReadStep(input, rd)
    /\ pc' = IF Running(rd') THEN "read" ELSE IF rd'.status = "ok" THEN "parsed" ELSE "failed"
    /\ file' = IF rd'.status = "ok" /\ rd'.stage = "done" THEN AssetFileOf(rd') ELSE file
    /\ UNCHANGED <<input, out, again, dispatchVars, bundleVars, extraVars>>

\* file.write_le(&mut Cursor::new(&mut vec![]))
Write ==
    /\ pc = "parsed"
    /\ out' = AssetFile_write(file, 0)
    /\ pc' = "written"
    /\ UNCHANGED <<input, rd, file, again, dispatchVars, bundleVars, extraVars>>

\* AssetFile::read_le of the bytes written.
Reparse ==
    /\ pc = "written"
    /\ out.status = "ok"
    /\ again' = AssetFile_read(out.bytes)
    /\ pc' = "reparsed"
    /\ UNCHANGED <<input, rd, file, out, dispatchVars, bundleVars, extraVars>>

\* The path ids a caller asks for: those of the table and two of no entry.
AskedPathIds(f) == {f.path_ids[i] : i \in 1..Len(f.path_ids)} \cup {BytesLE(9, 8), U64_MAX}

\* file.get_asset_by_path_id(p) and file.get_asset_by_path_id_mut(p)
Lookup ==
    /\ pc = "parsed"
    /\ \E p \in AskedPathIds(file) :
          found' = [asked     |-> p,
                    shared    |-> get_asset_by_path_id(file, p),
                    exclusive |-> get_asset_by_path_id_mut(file, p)]
    /\ pc' = "looked_up"
    /\ UNCHANGED <<input, assetVars, dispatchVars, bundleVars, out2, compression, packed,
                   unpacked, origin, consumed, encoded, ffiVars>>

Next == ReadField \/ Write \/ Reparse \/ Lookup

Spec == Init /\ [][Next]_vars

(***************************************************************************)
(* The dispatch of one record: Asset::read_options picks the arm of the    *)
(* type hash, then Asset::type_hash is asked of the value built.           *)
(***************************************************************************)
InitDispatch ==
    /\ pc = "dispatch"
    /\ input = <<>>
    /\ hash \in DispatchHashes
    /\ asset = NoAsset
    /\ hashed = <<>>
    /\ AssetIdle
    /\ BundleIdle
    /\ ExtraIdle

Dispatch ==
    /\ pc = "dispatch"
    /\ asset' = Asset_dispatch([size |-> 0, type_hash |-> hash, pptr |-> Zeros(8)])
    /\ pc' = "dispatched"
    /\ UNCHANGED <<input, hash, hashed, assetVars, bundleVars, extraVars>>

TypeHash ==
    /\ pc = "dispatched"
    /\ hashed' = type_hash(asset)
    /\ pc' = "hashed"
    /\ UNCHANGED <<input, hash, asset, assetVars, bundleVars, extraVars>>

NextDispatch == Dispatch \/ TypeHash

SpecDispatch == InitDispatch /\ [][NextDispatch]_vars

(***************************************************************************)
(* The bundle round trip: Bundle::from_slice, an optional                  *)
(* TextBundle::replace_raw, serialize, from_slice of the bytes written     *)
(* and TextBundle::take_raw.  build is the profile the crate was compiled  *)
(* with: overflow checks on (debug) or off (release).                      *)
(***************************************************************************)
InitBundle ==
    /\ pc = "from_slice"
    /\ input \in InputBundles
    /\ build \in Builds
    /\ bundle = NoBundle
    /\ new_data = NoData
    /\ image = NoImage
    /\ reloaded = NoBundle
    /\ taken = NoTaken
    /\ AssetIdle
    /\ DispatchIdle
    /\ ExtraIdle

\* Bundle::from_slice(raw_bundle)
FromSlice ==
    /\ pc = "from_slice"
    /\ bundle' = Bundle_from_slice(input, build)
    /\ pc' = IF bundle'.status = "ok" THEN "loaded" ELSE "failed"
    /\ UNCHANGED <<input, build, new_data, image, reloaded, taken, assetVars, dispatchVars, extraVars>>

\* TextBundle::replace_raw(new_data) on a bundle that holds a text asset.
ReplaceRaw ==
    /\ pc = "loaded"
    /\ \E d \in NewData :
          /\ replace_raw(bundle.files, d).ok
          /\ bundle' = [bundle EXCEPT !.files = replace_raw(bundle.files, d).files]
          /\ new_data' = [set |-> TRUE, data |-> d]
    /\ pc' = "replaced"
    /\ UNCHANGED <<input, build, image, reloaded, taken, assetVars, dispatchVars, extraVars>>

\* Bundle::serialize
Serialize ==
    /\ pc \in {"loaded", "replaced"}
    /\ image' = Bundle_serialize(bundle.files)
    /\ pc' = "serialized"
    /\ UNCHANGED <<input, build, bundle, new_data, reloaded, taken, assetVars, dispatchVars, extraVars>>

\* Bundle::from_slice of the bytes serialize returned.
Reload ==
    /\ pc = "serialized"
    /\ image.status = "ok"
    /\ reloaded' = Bundle_from_slice(image.bytes, build)
    /\ pc' = "reloaded"
    /\ UNCHANGED <<input, build, bundle, new_data, image, taken, assetVars, dispatchVars, extraVars>>

\* TextBundle::take_raw on the bundle read back.
TakeRaw ==
    /\ pc = "reloaded"
    /\ reloaded.status = "ok"
    /\ taken' = [status |-> IF take_raw(reloaded.files).ok THEN "ok" ELSE "err",
                 data   |-> take_raw(reloaded.files).data]
    /\ reloaded' = [reloaded EXCEPT !.files = take_raw(reloaded.files).files]
    /\ pc' = "taken"
    /\ UNCHANGED <<input, build, bundle, new_data, image, assetVars, dispatchVars, extraVars>>

NextBundle == FromSlice \/ ReplaceRaw \/ Serialize \/ Reload \/ TakeRaw

SpecBundle == InitBundle /\ [][NextBundle]_vars

(***************************************************************************)
(* A caller's edit between parse and write.  `types` and `assets` are      *)
(* public fields of AssetFile, path_ids and object_order are private: the  *)
(* caller can push, pop, remove or replace an asset and pop a type, and    *)
(* the private fields stay as the parse left them.                         *)
(***************************************************************************)
\* A hash that no type of the input files declares.
UNMAPPED_HASH == Flip(UNKNOWN_HASH, 1)

\* The assets a caller pushes or puts in place of another.
NewAssets ==
    {[variant |-> "Unparsed", type_hash |-> UNKNOWN_HASH, path_id |-> BytesLE(9, 8),
      blob |-> <<1, 2>>],
     [variant |-> "Unparsed", type_hash |-> UNMAPPED_HASH, path_id |-> BytesLE(9, 8),
      blob |-> <<1, 2>>],
     [variant |-> "Text", name |-> <<110>>, data |-> <<1>>]}

\* The files an edit of f through its public fields can leave.
EditedFiles(f) ==
    {[f EXCEPT !.assets = Append(@, a)] : a \in NewAssets}
    \cup {[f EXCEPT !.assets[i] = a] : i \in 1..Len(f.assets), a \in NewAssets}
    \cup {[f EXCEPT !.assets = SubSeq(@, 1, Len(@) - 1)] : i \in 1..Min(1, Len(f.assets))}
    \cup {[f EXCEPT !.assets = Tail(@)] : i \in 1..Min(1, Len(f.assets))}
    \cup {[f EXCEPT !.types = SubSeq(@, 1, Len(@) - 1)] : i \in 1..Min(1, Len(f.types))}

\* file.assets.push(..), file.assets.pop(), file.assets[i] = .., file.types.pop()
Edit ==
    /\ pc = "parsed"
    /\ file' \in EditedFiles(file)
    /\ pc' = "edited"
    /\ UNCHANGED <<input, rd, out, again, dispatchVars, bundleVars, extraVars>>

\* file.write_le(&mut Cursor::new(&mut vec![])) of the edited file.
WriteEdited ==
    /\ pc = "edited"
    /\ out' = AssetFile_write(file, 0)
    /\ pc' = "edit_written"
    /\ UNCHANGED <<input, rd, file, again, dispatchVars, bundleVars, extraVars>>

\* Bundle::serialize of a bundle whose one file is the edited asset file.
SerializeEdited ==
    /\ pc = "edit_written"
    /\ image' = Bundle_serialize(<<[name |-> CAB_NAME, kind |-> "Assets", raw |-> <<>>,
                                    assets |-> file]>>)
    /\ pc' = "edit_serialized"
    /\ UNCHANGED <<input, build, bundle, new_data, reloaded, taken, assetVars, dispatchVars,
                   extraVars>>

NextEdit == ReadField \/ Edit \/ WriteEdited \/ SerializeEdited

SpecEdit == Init /\ [][NextEdit]_vars

(***************************************************************************)
(* Properties of the asset-file round trip.                                *)
(***************************************************************************)
\* The record a parsed file holds for table entry k (0-based).
RecordOf(f, k) == f.assets[CHOOSE i \in 1..Len(f.object_order) : f.object_order[i] = k]

\* C1: a parsed file, written and parsed again, has the same path ids in
\* the same table order, the same number of assets and, for every table
\* entry, the same decoded record.
C1_RoundTripIdentity ==
    /\ pc = "written" => out.status = "ok"
    /\ pc = "reparsed" =>
          /\ again.status = "ok"
          /\ again.file.path_ids = file.path_ids
          /\ Len(again.file.assets) = Len(file.assets)
          /\ \A k \in 0..(Len(file.path_ids) - 1) :
                RecordOf(again.file, k) = RecordOf(file, k)

\* C2: the object_order of the second parse equals, element for element,
\* the object_order of the first, whatever the sizes and offsets.
C2_ObjectOrderPreserved ==
    pc = "reparsed" => again.status = "ok" /\ again.file.object_order = file.object_order

\* The parse invariant of a file f built by a reader r.
ParseInvariant(f, r) ==
    LET n      == Len(r.objects)
        oo     == f.object_order
        off(k) == r.objects[k + 1].offset
    IN  /\ Len(f.path_ids) = n /\ Len(f.assets) = n /\ Len(oo) = n
        /\ {oo[i] : i \in 1..n} = 0..(n - 1)
        /\ \A i, j \in 1..n :
              i < j => off(oo[i]) < off(oo[j]) \/ (off(oo[i]) = off(oo[j]) /\ oo[i] < oo[j])
        /\ \A i \in 1..n :
              /\ f.path_ids[i] = r.objects[i].path_id
              /\ r.spans[i].index = oo[i]
              /\ r.spans[i].at = f.header.data_offset + off(oo[i])
              /\ f.assets[i].variant = "Unparsed" =>
                    f.assets[i].path_id = f.path_ids[oo[i] + 1]

\* C3: every parsed file has as many path ids, assets and object_order
\* entries as table entries; object_order is the permutation of the table
\* indices in ascending offset order, equal offsets in table order; and
\* assets[i] is the record decoded at the offset of entry object_order[i].
C3_ParseInvariant ==
    /\ pc \in {"parsed", "written", "reparsed"} => ParseInvariant(file, rd)
    /\ (pc = "reparsed" /\ again.status = "ok") => ParseInvariant(again.file, again.rd)

C3_Witness ==
    /\ pc = "reparsed"
    /\ again.status = "ok"
    /\ Len(file.object_order) = 2
    /\ file.object_order = <<1, 0>>
    /\ rd.objects[1].offset > rd.objects[2].offset

\* A file with two entries at one offset, in table order.
C3_WitnessShared ==
    /\ pc = "parsed"
    /\ Len(rd.objects) = 2
    /\ rd.objects[1].offset = rd.objects[2].offset
    /\ file.object_order = <<0, 1>>

\* What a reader r decoded from stream s for its unknown-type entries.
UnparsedDecodedExactly(s, r) ==
    \A i \in 1..Len(r.assets) :
        LET obj  == r.objects[r.spans[i].index + 1]
            h    == r.types[obj.type_id + 1].type_hash
        IN  h \notin KNOWN_HASHES =>
                /\ r.assets[i].variant = "Unparsed"
                /\ r.spans[i].end - r.spans[i].at = obj.size
                /\ r.assets[i].blob = Take(s, r.spans[i].at, obj.size)
                /\ r.assets[i].type_hash = h
                /\ r.assets[i].path_id = obj.path_id

\* C4: an entry whose type hash is no known constant decodes to Unparsed
\* with the hash and path id of the entry and exactly the `size` bytes at
\* its offset, the decoder stopping right after them; encoding an Unparsed
\* writes exactly its blob.
C4_UnparsedExact ==
    /\ UnparsedDecodedExactly(input, rd)
    /\ pc = "reparsed" => UnparsedDecodedExactly(out.bytes, again.rd)
    /\ pc \in {"written", "reparsed"} =>
          \A j \in 1..Len(out.placed) :
              file.assets[j].variant = "Unparsed" =>
                  /\ out.placed[j].len = Len(file.assets[j].blob)
                  /\ Take(out.bytes, out.placed[j].at, out.placed[j].len) = file.assets[j].blob

C4_Witness ==
    /\ pc = "reparsed"
    /\ \E j \in 1..Len(file.assets) :
          /\ file.assets[j].variant = "Unparsed"
          /\ Len(file.assets[j].blob) = MaxBlobLen
          /\ out.placed[j].len = MaxBlobLen

\* The count of an array or string begins at the next multiple of 4 at or
\* after the position its codec started from.
CountAligned(c) == c.at % 4 = 0 /\ c.at >= c.from /\ c.at - c.from < 4

C10_RefTypeCountRejectedAtOnce ==
    rd.ref_type_count # 0 =>
        /\ rd.status = "err"
        /\ rd.stage = "ref_type_count"
        /\ ~rd.user_info_read
        /\ rd.decoded = 0

(***************************************************************************)
(* A rename: the bundle read has one file renamed, by name or as the cab,  *)
(* and is serialized.                                                      *)
(***************************************************************************)
\* bundle.rename(original_file_name, new_file_name)
Rename ==
    /\ pc = "loaded"
    /\ \E o \in OldNames, n \in NewNames :
          /\ bundle' = [bundle EXCEPT !.files = rename(bundle.files, o, n).files]
          /\ pc' = IF rename(bundle.files, o, n).ok THEN "renamed" ELSE "not_renamed"
    /\ UNCHANGED <<input, build, new_data, image, reloaded, taken,
                   assetVars, dispatchVars, extraVars>>

\* bundle.rename_cab(new_file_name)
RenameCab ==
    /\ pc = "loaded"
    /\ \E n \in NewNames :
          /\ bundle' = [bundle EXCEPT !.files = rename_cab(bundle.files, n).files]
          /\ pc' = IF rename_cab(bundle.files, n).ok THEN "cab_renamed" ELSE "not_renamed"
    /\ UNCHANGED <<input, build, new_data, image, reloaded, taken,
                   assetVars, dispatchVars, extraVars>>

\* bundle.serialize() after the rename
SerializeRenamed ==
    /\ pc \in {"renamed", "cab_renamed"}
    /\ image' = Bundle_serialize(bundle.files)
    /\ pc' = "rename_serialized"
    /\ UNCHANGED <<input, build, bundle, new_data, reloaded, taken,
                   assetVars, dispatchVars, extraVars>>

NextRename == FromSlice \/ Rename \/ RenameCab \/ SerializeRenamed

SpecRename == InitBundle /\ [][NextRename]_vars

(***************************************************************************)
(* The codec of one record: Asset::read_options decodes the record that    *)
(* starts at stream position origin, then the value is written at the      *)
(* same position of an empty stream.                                       *)
(***************************************************************************)
InitRecord ==
    /\ pc = "decode"
    /\ \E r \in RecordInputs, o \in Origins :
          /\ input \in {Zeros(o) \o b : b \in WholeOrCut(r.bytes)}
          /\ hash = r.hash
          /\ origin = o
    /\ asset = NoAsset
    /\ hashed = <<>>
    /\ consumed = 0
    /\ encoded = <<>>
    /\ found = NoLookup
    /\ FfiIdle
    /\ out2 = NoOut
    /\ compression = "none"
    /\ packed = NoImage
    /\ unpacked = NoBundle
    /\ AssetIdle
    /\ BundleIdle

\* Asset::read_options(reader, endian, AssetReadOptions { size, type_hash, pptr })
Decode ==
    /\ pc = "decode"
    /\ \E rec \in {Asset_read(input, origin, [size      |-> Len(input) - origin,
                                               type_hash |-> hash,
                                               pptr      |-> RecordPathId])} :
          /\ asset' = IF rec.ok THEN rec.val ELSE NoAsset
          /\ consumed' = rec.pos - origin
          /\ pc' = IF rec.ok THEN "decoded" ELSE "decode_failed"
    /\ UNCHANGED <<input, hash, hashed, out2, compression, packed, unpacked, origin, encoded,
                   found, ffiVars, assetVars, bundleVars>>

\* asset.write_options(writer, endian, ())
Encode ==
    /\ pc = "decoded"
    /\ encoded' = Asset_write(asset, origin).bytes
    /\ pc' = "encoded"
    /\ UNCHANGED <<input, out2, compression, packed, unpacked, origin, consumed,
                   found, ffiVars, assetVars, dispatchVars, bundleVars>>

NextRecord == Decode \/ Encode

SpecRecord == InitRecord /\ [][NextRecord]_vars

(***************************************************************************)
(* The second write: the file parsed from the bytes written is written     *)
(* again.                                                                  *)
(***************************************************************************)
\* again.write_le(&mut Cursor::new(&mut vec![]))
Rewrite ==
    /\ pc = "reparsed"
    /\ again.status = "ok"
    /\ out2' = AssetFile_write(again.file, 0)
    /\ pc' = "rewritten"
    /\ UNCHANGED <<input, compression, packed, unpacked, origin, consumed, encoded,
                   found, ffiVars, assetVars, dispatchVars, bundleVars>>

NextTwice == ReadField \/ Write \/ Reparse \/ Rewrite

SpecTwice == Init /\ [][NextTwice]_vars

(***************************************************************************)
(* A serialize with a chosen block compression: the bundle read is         *)
(* serialized and read back as in the round trip, then serialized with     *)
(* the compression chosen, and those bytes are read back.                  *)
(***************************************************************************)
InitCodec ==
    /\ pc = "from_slice"
    /\ input \in CodecInputs
    /\ build \in Builds
    /\ bundle = NoBundle
    /\ new_data = NoData
    /\ image = NoImage
    /\ reloaded = NoBundle
    /\ taken = NoTaken
    /\ AssetIdle
    /\ DispatchIdle
    /\ ExtraIdle

\* bundle.serialize_with_block_compression(compression_type)
Pack ==
    /\ pc = "reloaded"
    /\ \E c \in CompressionTypes :
          /\ compression' = c
          /\ packed' = serialize_with_block_compression(bundle.files, c)
    /\ pc' = "packed"
    /\ UNCHANGED <<input, out2, unpacked, origin, consumed, encoded,
                   found, ffiVars, assetVars, dispatchVars, bundleVars>>

\* Bundle::from_slice of the bytes the chosen compression gave.
Unpack ==
    /\ pc = "packed"
    /\ packed.status = "ok"
    /\ unpacked' = Bundle_from_slice(packed.bytes, build)
    /\ pc' = "unpacked"
    /\ UNCHANGED <<input, out2, compression, packed, origin, consumed, encoded,
                   found, ffiVars, assetVars, dispatchVars, bundleVars>>

NextCodec == FromSlice \/ Serialize \/ Reload \/ Pack \/ Unpack

SpecCodec == InitCodec /\ [][NextCodec]_vars

(***************************************************************************)
(* Properties of the dispatch.                                             *)
(***************************************************************************)
\* C5: the dispatch and type_hash are mutually inverse.  A known constant
\* decodes to a known variant whose type_hash is that constant, distinct
\* constants to distinct variants, and every known variant comes from
\* exactly one constant; any other hash decodes to Unparsed, whose
\* type_hash is that hash.
C5_DispatchInverse ==
    /\ pc \in {"dispatched", "hashed"} =>
          /\ hash \in KNOWN_HASHES => asset.variant \in KnownVariants
          /\ hash \notin KNOWN_HASHES => asset.variant = "Unparsed"
          /\ \A h \in KNOWN_HASHES \ {hash} :
                Asset_dispatch([size |-> 0, type_hash |-> h, pptr |-> Zeros(8)]).variant
                    # asset.variant
          /\ asset.variant \in KnownVariants =>
                Cardinality({h \in DispatchHashes :
                    Asset_dispatch([size |-> 0, type_hash |-> h, pptr |-> Zeros(8)]).variant
                        = asset.variant}) = 1
    /\ pc = "hashed" => hashed = hash
    /\ \A v \in KnownVariants :
          /\ type_hash([variant |-> v]) \in KNOWN_HASHES
          /\ Asset_dispatch([size |-> 0, type_hash |-> type_hash([variant |-> v]),
                             pptr |-> Zeros(8)]).variant = v

\* A known constant has gone through the dispatch and come back.
C5_Witness ==
    /\ pc = "hashed"
    /\ hash = SPRITE_HASH
    /\ asset.variant = "Sprite"
    /\ hashed = SPRITE_HASH

\* A hash one byte away from a constant has come back from Unparsed.
C5_WitnessUnknown ==
    /\ pc = "hashed"
    /\ hash = Flip(TEXT_ASSET_HASH, 1)
    /\ asset.variant = "Unparsed"
    /\ hashed = hash

(***************************************************************************)
(* Properties of the bundle round trip.                                    *)
(***************************************************************************)
\* The payload TextBundle's accessor exposes, if it finds a text asset.
TextPayload(files) ==
    IF get_asset(files).ok
    THEN [ok   |-> TRUE,
          data |-> files[get_asset(files).file].assets.assets[get_asset(files).asset].data]
    ELSE [ok |-> FALSE, data |-> <<>>]

\* Files b agree with files a in names, order, kinds and Raw contents.
SameFiles(a, b) ==
    /\ Len(b) = Len(a)
    /\ \A i \in 1..Len(a) :
          /\ b[i].name = a[i].name
          /\ b[i].kind = a[i].kind
          /\ a[i].kind = "Raw" => b[i].raw = a[i].raw

\* C6: a bundle read by from_slice, serialized and read again has the same
\* file names in the same order, the same kind per file, the same Raw
\* contents, the same text payload and the same get_cab result.
C6_BundleRoundTrip ==
    /\ (pc = "serialized" /\ ~new_data.set) => image.status = "ok"
    /\ (pc = "reloaded" /\ ~new_data.set) =>
          /\ reloaded.status = "ok"
          /\ SameFiles(bundle.files, reloaded.files)
          /\ TextPayload(reloaded.files) = TextPayload(bundle.files)
          /\ get_cab(reloaded.files) = get_cab(bundle.files)

\* The records of asset file b are those of asset file a, entry by entry,
\* the text asset at index t of both left aside.
SameOtherRecords(a, b, t) ==
    /\ b.path_ids = a.path_ids
    /\ Len(b.assets) = Len(a.assets)
    /\ \A k \in 0..(Len(a.path_ids) - 1) :
          RecordOf(a, k) # a.assets[t] => RecordOf(b, k) = RecordOf(a, k)

\* C7: after replace_raw(d), serialize, from_slice and take_raw return
\* exactly d, and every other object of the asset file and every other
\* file of the bundle is as it was before.
C7_ReplaceRawRoundTrip ==
    /\ (pc = "serialized" /\ new_data.set) => image.status = "ok"
    /\ (pc = "reloaded" /\ new_data.set) => reloaded.status = "ok"
    /\ (pc = "taken" /\ new_data.set) =>
          /\ taken = [status |-> "ok", data |-> new_data.data]
          /\ SameFiles(bundle.files, reloaded.files)
          /\ get_asset(reloaded.files) = get_asset(bundle.files)
          /\ SameOtherRecords(bundle.files[get_asset(bundle.files).file].assets,
                              reloaded.files[get_asset(bundle.files).file].assets,
                              get_asset(bundle.files).asset)

\* A node of non-zero size whose offset + size, taken in the integers, is
\* beyond a blob of blob_len bytes.
OutOfBounds(node, blob_len) ==
    /\ node.size # U64(0)
    /\ \/ U64Add(node.offset, node.size).overflow
       \/ ValLE(U64Add(node.offset, node.size).val) > blob_len

\* C9: from_slice returns an error value, whatever the build, when a node
\* of non-zero size has offset + size beyond the blob, sums that leave the
\* 64 bits included.
C9_OutOfBoundsNodeIsError ==
    (pc # "from_slice" /\ \E i \in 1..Len(bundle.nodes) :
                             OutOfBounds(bundle.nodes[i], bundle.blob_len))
        => bundle.status = "err"

(***************************************************************************)
(* Properties of the write of an edited file.                              *)
(***************************************************************************)
\* Some asset of f has a type hash that no entry of f.types carries.
HasUnmappedAsset(f) ==
    \E i \in 1..Len(f.assets) :
        type_hash_to_id(f.types, type_hash(f.assets[i]), Len(f.types)) < 0

\* The object table as the bytes w hold it: Len(f.assets) entries of 24
\* bytes from objects_position on.
WrittenTable(w, f) ==
    [i \in 1..Len(f.assets) |->
        AssetFileObject_read(w.bytes, w.objects_position + 24 * (i - 1)).val]

\* C11: when some asset's type hash is the hash of no entry of types, the
\* write returns an error, no object-table entry is written (the table
\* keeps the zeros reserved for it), and Bundle::serialize returns the
\* error and no bytes.
C11_UnmappedTypeIsError ==
    (pc \in {"edit_written", "edit_serialized"} /\ HasUnmappedAsset(file)) =>
        /\ out.status = "err"
        /\ \A i \in 1..Len(file.assets) : WrittenTable(out, file)[i] = DefaultObject
        /\ pc = "edit_serialized" => image.status = "err" /\ image.bytes = <<>>

\* C20: with assets pushed or removed, the write returns an error value or
\* a file in which every asset is serialized and has its own populated
\* table entry; it never indexes the table out of range (a panic) and
\* never leaves an entry as reserved.
C20_EditedAssetsWriteSafely ==
    (pc = "edit_written" /\ Len(file.assets) # Len(file.path_ids)) =>
        /\ out.status \in {"ok", "err"}
        /\ out.status = "ok" =>
              /\ Len(out.placed) = Len(file.assets)
              /\ \A j, k \in 1..Len(out.placed) :
                    out.placed[j].index = out.placed[k].index => j = k
              /\ \A i \in 1..Len(file.assets) :
                    /\ WrittenTable(out, file)[i] # DefaultObject
                    /\ \E j \in 1..Len(out.placed) : out.placed[j].index = i - 1

(***************************************************************************)
(* Properties of a serialize with a chosen block compression.              *)
(***************************************************************************)
\* C12: serialize_with_block_compression(Lzma) returns an error and no
\* output bytes for every bundle, the bundle without files included.
C12_LzmaIsError ==
    (pc \in {"packed", "unpacked"} /\ compression = "Lzma") =>
        packed.status = "err" /\ packed.bytes = <<>>

\* The bundle was read from blocks stored with LZ4.
ReadFromLz4(b) == b.blocks # <<>> /\ \A i \in 1..Len(b.blocks) : b.blocks[i].flags % 64 \in {2, 3}

\* Asset file b holds the records of asset file a, entry by entry.
SameRecords(a, b) ==
    /\ b.path_ids = a.path_ids
    /\ Len(b.assets) = Len(a.assets)
    /\ \A k \in 0..(Len(a.path_ids) - 1) : RecordOf(b, k) = RecordOf(a, k)

\* Files b hold the contents of files a: names, order, kinds, Raw bytes
\* and the records of the asset files.
SameContents(a, b) ==
    /\ SameFiles(a, b)
    /\ \A i \in 1..Len(a) : a[i].kind = "Assets" => SameRecords(a[i].assets, b[i].assets)

\* The bytes serialize gave with LZ4 read back as the bundle its
\* uncompressed bytes read back as.
Lz4ReadsAsUncompressed ==
    /\ (pc = "packed" /\ compression = "Lz4") => packed.status = "ok"
    /\ (pc = "unpacked" /\ compression = "Lz4") =>
          /\ unpacked.status = reloaded.status
          /\ unpacked.files = reloaded.files
          /\ unpacked.nodes = reloaded.nodes
          /\ unpacked.blob_len = reloaded.blob_len

\* A bundle read from LZ4 blocks and serialized uncompressed reads back
\* with the contents of every node.
Lz4InputKeepsContents ==
    (pc = "reloaded" /\ ReadFromLz4(bundle)) =>
        reloaded.status = "ok" /\ SameContents(bundle.files, reloaded.files)

\* C13: from_slice of the bytes serialized with Lz4 and from_slice of the
\* bytes serialized Uncompressed hold the same files in the same order with
\* the same contents, and a bundle read from LZ4 blocks and serialized
\* uncompressed keeps the content of every node.
C13_Lz4SameAsUncompressed == Lz4ReadsAsUncompressed /\ Lz4InputKeepsContents

(***************************************************************************)
(* Properties of the second write.                                         *)
(***************************************************************************)
\* Every object of the file has a type hash the dispatch does not know.
AllUnparsed(f) == \A i \in 1..Len(f.assets) : f.assets[i].variant = "Unparsed"

\* C14: for an asset file whose objects all have unknown type hashes, the
\* write of the parse of the first write equals the first write byte for
\* byte.
C14_SecondWriteIsFixpoint ==
    /\ (pc = "reparsed" /\ AllUnparsed(file)) => again.status = "ok"
    /\ (pc = "rewritten" /\ AllUnparsed(file)) =>
          out2.status = "ok" /\ out2.bytes = out.bytes

(***************************************************************************)
(* Properties of the object table written.                                 *)
(***************************************************************************)
\* The bytes of a written file w from data-region offset `offset` on, as
\* many as `record` has, are `record`.
RecordAt(w, offset, record) ==
    /\ w.start + offset + Len(record) <= Len(w.bytes)
    /\ SubSeq(w.bytes, w.start + offset + 1, w.start + offset + Len(record)) = record

\* Entry e of the table of a written file w is the entry of assets[j] of
\* file f: the type id of its hash, the offset where its record lies and
\* the size of the record padded to 4.
EntryOfAsset(w, f, e, j) ==
    /\ e.type_id = type_hash_to_id(f.types, type_hash(f.assets[j]), Len(f.types))
    /\ RecordAt(w, e.offset, Asset_write(f.assets[j], w.start + e.offset).bytes)
    /\ e.size >= Len(Asset_write(f.assets[j], w.start + e.offset).bytes)
    /\ e.size < Len(Asset_write(f.assets[j], w.start + e.offset).bytes) + 4
    /\ (e.offset + e.size) % 4 = 0
    /\ e.offset % 8 = 0
    /\ \A k \in 1..Len(f.assets) :
          k < j => WrittenTable(w, f)[f.object_order[k] + 1].offset
                   + WrittenTable(w, f)[f.object_order[k] + 1].size <= e.offset

\* C15: in the written file the i-th table entry carries path_ids[i], and
\* its offset, size and type id are those of the asset assets[j] with
\* object_order[j] = i, which is written as the j-th record.
C15_TableFollowsObjectOrder ==
    pc = "written" =>
        /\ out.status = "ok"
        /\ \A i \in 1..Len(file.path_ids) : WrittenTable(out, file)[i].path_id = file.path_ids[i]
        /\ \A j \in 1..Len(file.assets) :
              EntryOfAsset(out, file, WrittenTable(out, file)[file.object_order[j] + 1], j)

\* A file written whose second record belongs to the first table entry.
C15_Witness ==
    /\ pc = "written"
    /\ out.status = "ok"
    /\ file.object_order = <<1, 0>>
    /\ file.assets[1] # file.assets[2]
    /\ file.path_ids[1] # file.path_ids[2]
    /\ WrittenTable(out, file)[1].offset > WrittenTable(out, file)[2].offset

(***************************************************************************)
(* Properties of an asset file written inside a bundle.                    *)
(***************************************************************************)
\* The file parsed from the bytes `assets` is written as at position 0.
WrittenAtZero(assets) == AssetFile_read(AssetFile_write(assets, 0).bytes)

\* C16: an asset file written by Bundle::serialize at blob offset b parses
\* again through from_slice to the same records for every b >= 0, as it
\* does when written at offset 0.
C16_AnyBlobOffsetReparses ==
    (pc = "reloaded" /\ ~new_data.set) =>
        /\ reloaded.status = "ok"
        /\ \A i \in 1..Len(bundle.files) :
              bundle.files[i].kind = "Assets" =>
                  /\ WrittenAtZero(bundle.files[i].assets).status = "ok"
                  /\ SameRecords(WrittenAtZero(bundle.files[i].assets).file,
                                 reloaded.files[i].assets)

(***************************************************************************)
(* Properties of the type index of an object.                              *)
(***************************************************************************)
\* The object table read holds an entry whose type index is not below the
\* number of declared types.
TypeIndexOutOfRange(r) == \E i \in 1..Len(r.objects) : r.objects[i].type_id >= Len(r.types)

\* C18: the parse returns an error value, and does not abort, when an
\* object-table entry's type index is greater than or equal to the number
\* of declared types.
C18_TypeIndexOutOfRangeIsError ==
    (pc \in {"parsed", "failed"} /\ rd.stage \in {"assets", "assert", "done"}
     /\ TypeIndexOutOfRange(rd)) => rd.status = "err"

(***************************************************************************)
(* Properties of a rename.                                                 *)
(***************************************************************************)
\* Files b are files a with at most one name changed: every file keeps
\* its index and contents, and all but one their names.
RenamedInPlace(a, b) ==
    /\ Len(b) = Len(a)
    /\ \A i \in 1..Len(a) : b[i] = [a[i] EXCEPT !.name = b[i].name]
    /\ \A i, j \in 1..Len(a) : (b[i].name # a[i].name /\ b[j].name # a[j].name) => i = j

\* The nodes serialize emits for files b are, index by index, the nodes of
\* files a up to the path.
SameNodeIndexes(a, b) ==
    /\ Len(b) = Len(a)
    /\ \A i \in 1..Len(a) : [b[i] EXCEPT !.path = <<>>] = [a[i] EXCEPT !.path = <<>>]

\* C19: rename(old, new) on a bundle that contains old leaves the file
\* sequence unchanged except for the name: the renamed file keeps its index
\* and contents, all other files keep names, contents and positions, and a
\* following serialize emits every node at the same index as before;
\* rename_cab likewise.
C19_RenameKeepsPositions ==
    /\ pc \in {"renamed", "cab_renamed"} =>
          RenamedInPlace(Bundle_from_slice(input, build).files, bundle.files)
    /\ (pc = "rename_serialized" /\ image.status = "ok") =>
          SameNodeIndexes(Bundle_serialize(Bundle_from_slice(input, build).files).nodes,
                          image.nodes)

(***************************************************************************)
(* Properties of the codec of one record.                                  *)
(***************************************************************************)
\* C17: the encoding is symmetric to the decoding for every known
\* variant: the bytes written are the typed fields in declaration order,
\* as many as the decoder consumed; this covers Texture2D, whose stored
\* stable id is not part of the wire record.
C17_EncodeMirrorsDecode ==
    (pc = "encoded" /\ asset.variant \in KnownVariants) =>
        /\ Len(encoded) = consumed
        /\ encoded = SubSeq(input, origin + 1, origin + consumed)

(***************************************************************************)
(* Properties of the layout of the data section written.                   *)
(***************************************************************************)
\* The table entry the written file w holds for assets[j] of file f.
EntryOf(w, f, j) == WrittenTable(w, f)[f.object_order[j] + 1]

\* The start of the data section the header of the written file w names.
DataStart(w) == AssetFileHeader_read(w.bytes, 0).val.data_offset

\* The record of assets[j] as it is encoded at the position its entry names.
RecordBytes(w, f, j) == Asset_write(f.assets[j], DataStart(w) + EntryOf(w, f, j).offset).bytes

\* Record j of the written file: it starts at a multiple of 8, its entry's
\* offset counts from the start of the data section, and its size is the
\* record's bytes and the zeros up to the next multiple of 4.
RecordLaidOut(w, f, j) ==
    /\ (DataStart(w) + EntryOf(w, f, j).offset) % 8 = 0
    /\ DataStart(w) + EntryOf(w, f, j).offset + EntryOf(w, f, j).size <= Len(w.bytes)
    /\ Take(w.bytes, DataStart(w) + EntryOf(w, f, j).offset, Len(RecordBytes(w, f, j)))
       = RecordBytes(w, f, j)
    /\ EntryOf(w, f, j).size
       = AlignUp(EntryOf(w, f, j).offset + Len(RecordBytes(w, f, j)), 4)
         - EntryOf(w, f, j).offset
    /\ \A p \in (EntryOf(w, f, j).offset + Len(RecordBytes(w, f, j)))
                ..(EntryOf(w, f, j).offset + EntryOf(w, f, j).size - 1) :
          w.bytes[DataStart(w) + p + 1] = 0

\* C21: in the file written, taking the records in physical order, each
\* record starts at a stream position that is a multiple of 8, its recorded
\* offset is that position minus the start of the data section, the
\* recorded offsets do not decrease and the byte ranges do not overlap, and
\* the recorded size is the record's bytes plus the zero padding up to the
\* next multiple of 4.
C21_RecordsAlignedInOrder ==
    pc = "written" =>
        /\ out.status = "ok"
        /\ \A j \in 1..Len(file.assets) : RecordLaidOut(out, file, j)
        /\ \A j, k \in 1..Len(file.assets) :
              j < k => /\ EntryOf(out, file, j).offset <= EntryOf(out, file, k).offset
                       /\ EntryOf(out, file, j).offset + EntryOf(out, file, j).size
                          <= EntryOf(out, file, k).offset

\* Two records written, the first padded to 4 and the second moved on to
\* the next multiple of 8.
C21_Witness ==
    /\ pc = "written"
    /\ out.status = "ok"
    /\ Len(file.assets) = 2
    /\ EntryOf(out, file, 1).size > Len(RecordBytes(out, file, 1))
    /\ EntryOf(out, file, 2).offset > EntryOf(out, file, 1).offset + EntryOf(out, file, 1).size
    /\ EntryOf(out, file, 2).size > 0

(***************************************************************************)
(* Properties of the header written back over the reserved region.         *)
(***************************************************************************)
\* The header as stored at the base position of a written file.
StoredHeader(w) == AssetFileHeader_read(w.bytes, 0).val

\* The bytes written from the type count to the end of the user-info
\* string, before the padding to 16: the type count lies at meta_data_base
\* and the terminator of the user-info string right before meta_end.
MeasuredMetaData(w, f) ==
    IF /\ ValLE(Take(w.bytes, w.meta_data_base, 4)) = Len(f.types)
       /\ Take(w.bytes, w.meta_end - Len(f.user_info) - 1, Len(f.user_info) + 1)
              = WriteNullString(f.user_info)
    THEN w.meta_end - w.meta_data_base
    ELSE -1

\* C22 as stated: the meta_data_size stored in the header of a written file
\* equals the number of bytes written from the type count to the end of the
\* user-info string, measured before the pad to 16.
C22_MetaDataSizeIsMeasured ==
    (pc = "written" /\ out.status = "ok")
        => StoredHeader(out).meta_data_size = MeasuredMetaData(out, file)

\* C22 amended: the stored meta_data_size is that measured count plus the
\* engine version string's length plus 6 (its terminator, the 4-byte
\* platform and the type-tree flag, which lie in the header).
C22_MetaDataSizeCountsHeaderTail ==
    (pc = "written" /\ out.status = "ok")
        => /\ MeasuredMetaData(out, file) >= 0
           /\ StoredHeader(out).meta_data_size
                  = MeasuredMetaData(out, file) + Len(StoredHeader(out).unity_version) + 6

C22_Witness ==
    /\ pc = "written"
    /\ out.status = "ok"
    /\ Len(file.assets) > 0
    /\ Len(file.header.unity_version) > 0
    /\ StoredHeader(out).meta_data_size > MeasuredMetaData(out, file)
    /\ MeasuredMetaData(out, file) > 0

(***************************************************************************)
(* Properties of the data offset of an asset file written at a base        *)
(* position: alone (base 0) or as a file of a bundle (base = the length of *)
(* the blob before it).                                                    *)
(***************************************************************************)
\* Where the blob starts in the bytes serialize returned.
BlobStart(img) == Header_read(img.bytes).pos + Header_read(img.bytes).compressed_size

\* The base position of file i in the blob, and its bytes.
BaseOf(img, i) == ValLE(img.nodes[i].offset)

WrittenFile(img, i) ==
    Take(img.bytes, BlobStart(img) + BaseOf(img, i), ValLE(img.nodes[i].size))

\* data_offset stored in the bytes s of a file written at base b as w: the
\* larger of 0x1000 and the bytes from b to the end of the padding to 16.
DataOffsetIsMax(s, w, b) ==
    AssetFileHeader_read(s, 0).val.data_offset = Max(AlignUp(w.meta_end, 16) - b, MIN_DATA_OFFSET)

\* Zero bytes from the end of the meta-data to base + data_offset.
GapIsZero(s, w, b) ==
    \A k \in (w.meta_end - b + 1)..AssetFileHeader_read(s, 0).val.data_offset : s[k] = 0

\* No record starts before base + data_offset.
RecordsAfterDataOffset(s, w, b) ==
    \A j \in 1..Len(w.placed) : w.placed[j].at >= b + AssetFileHeader_read(s, 0).val.data_offset

\* A parse of the bytes s reads its j-th record where the writer put it.
ReparseSeeksToRecords(s, w, b) ==
    /\ AssetFile_read(s).status = "ok"
    /\ Len(AssetFile_read(s).rd.spans) = Len(w.placed)
    /\ \A j \in 1..Len(w.placed) : AssetFile_read(s).rd.spans[j].at = w.placed[j].at - b

DataOffsetHolds(s, w, b) ==
    /\ DataOffsetIsMax(s, w, b)
    /\ GapIsZero(s, w, b)
    /\ RecordsAfterDataOffset(s, w, b)
    /\ ReparseSeeksToRecords(s, w, b)

\* C23: a file written at a base position stores data_offset = max(P,
\* 0x1000), with P the bytes from the base to the end of the padding of the
\* meta-data to 16; the bytes from the end of the meta-data to base +
\* data_offset are zero, no record starts before base + data_offset, and a
\* parse of the file seeks to the positions the records were written at.
C23_DataOffsetAndReparse ==
    (pc = "serialized" /\ image.status = "ok") =>
        \A i \in 1..Len(bundle.files) :
            bundle.files[i].kind = "Assets" =>
                DataOffsetHolds(WrittenFile(image, i),
                                AssetFile_write(bundle.files[i].assets, BaseOf(image, i)),
                                BaseOf(image, i))

(***************************************************************************)
(* Properties of the regions reserved by the writer and filled at the end. *)
(***************************************************************************)
\* The header read at the base position of the written file w ends where
\* the reserved region ends and holds the values set before it is written.
HeaderFilled(w, f) ==
    /\ AssetFileHeader_read(w.bytes, 0).ok
    /\ AssetFileHeader_read(w.bytes, 0).pos = HEADER_FIXED_SIZE + Len(f.header.unity_version)
    /\ AssetFileHeader_read(w.bytes, 0).pos = w.meta_data_base
    /\ StoredHeader(w).unity_version = f.header.unity_version
    /\ StoredHeader(w).version = 22
    /\ ValLE(StoredHeader(w).platform) = 38
    /\ StoredHeader(w).enable_type_tree = 1
    /\ StoredHeader(w).file_size = w.end_position
    /\ StoredHeader(w).file_size = Len(w.bytes)
    /\ StoredHeader(w).data_offset = Max(AlignUp(w.meta_end, 16), MIN_DATA_OFFSET)

\* Entry i of the table written is the entry of one asset written: its
\* record lies at data_offset + offset with the size and the type id of
\* that asset.
EntryCompleted(w, f, i) ==
    \E j \in 1..Len(w.placed) :
        /\ w.placed[j].index = i - 1
        /\ WrittenTable(w, f)[i].offset = w.placed[j].at - w.start
        /\ WrittenTable(w, f)[i].size = AlignUp(w.placed[j].at + w.placed[j].len, 4) - w.placed[j].at
        /\ WrittenTable(w, f)[i].type_id
               = type_hash_to_id(f.types, type_hash(f.assets[j]), Len(f.types))
        /\ i <= Len(f.path_ids)
        /\ WrittenTable(w, f)[i].path_id = f.path_ids[i]

\* C24: after a write that returns Ok the reserved header region holds the
\* header (version 22, platform 38, type-tree flag 1, file_size = end -
\* base, the computed data_offset) and is filled by it exactly, the
\* reserved table region of 24 * n bytes holds the n completed entries, and
\* the cursor is at the end of the stream.
C24_ReservedRegionsFilled ==
    (pc \in {"written", "edit_written"} /\ out.status = "ok") =>
        /\ HeaderFilled(out, file)
        /\ \A i \in 1..Len(file.assets) : EntryCompleted(out, file, i)
        /\ out.end_position = Len(out.bytes)

(***************************************************************************)
(* Properties of the blocks serialize emits.                               *)
(***************************************************************************)
\* The blob serialize lays out for the files, before it is chunked.
BlobOf(files) == WriteFiles(files, 1, [status |-> "ok", blob |-> <<>>, nodes |-> <<>>]).blob

\* The block table stored in the bytes s.
BlocksOf(s) == MetaData_read(Take(s, Header_read(s).pos, Header_read(s).compressed_size)).blocks

\* Where the bytes of block i start in s: behind the blocks before it.
RECURSIVE BlockStart(_, _)
BlockStart(s, i) ==
    IF i = 1 THEN Header_read(s).pos + Header_read(s).compressed_size
    ELSE BlockStart(s, i - 1) + BlocksOf(s)[i - 1].compressed_size

\* Block i of s is chunk i of the blob: CHUNK_SIZE bytes, or what is left
\* in the last, with the flags of the compression and the compressed size
\* of the bytes emitted for it.
BlockIsChunk(s, blob, i, flags) ==
    Bind(Take(blob, (i - 1) * CHUNK_SIZE, Min(CHUNK_SIZE, Len(blob) - (i - 1) * CHUNK_SIZE)),
         LAMBDA chunk:
        /\ BlocksOf(s)[i].decompressed_size = Len(chunk)
        /\ i < Len(BlocksOf(s)) => Len(chunk) = CHUNK_SIZE
        /\ Len(chunk) > 0
        /\ BlocksOf(s)[i].flags = flags
        /\ BlockStart(s, i) + BlocksOf(s)[i].compressed_size <= Len(s)
        /\ IF flags = 0
           THEN /\ BlocksOf(s)[i].compressed_size = Len(chunk)
                /\ Take(s, BlockStart(s, i), Len(chunk)) = chunk
           ELSE /\ Lz4Decompress(Take(s, BlockStart(s, i), BlocksOf(s)[i].compressed_size),
                                 Len(chunk)).ok
                /\ Lz4Decompress(Take(s, BlockStart(s, i), BlocksOf(s)[i].compressed_size),
                                 Len(chunk)).bytes = chunk)

RECURSIVE SumDecompressed(_)
SumDecompressed(blocks) ==
    IF blocks = <<>> THEN 0 ELSE Head(blocks).decompressed_size + SumDecompressed(Tail(blocks))

\* C25: the blob is emitted as consecutive chunks of 0x20000 bytes, the
\* last one possibly shorter; the block table has one entry per chunk in
\* order, the decompressed sizes sum to the length of the blob, every
\* compressed_size is the length of the bytes emitted for the chunk, the
\* flags are 0 for Uncompressed and 3 for Lz4, and an empty blob has no
\* block.
C25_BlocksAreChunks ==
    (pc = "packed" /\ packed.status = "ok") =>
        /\ Len(BlocksOf(packed.bytes)) = (Len(BlobOf(bundle.files)) + CHUNK_SIZE - 1) \div CHUNK_SIZE
        /\ BlobOf(bundle.files) = <<>> => BlocksOf(packed.bytes) = <<>>
        /\ SumDecompressed(BlocksOf(packed.bytes)) = Len(BlobOf(bundle.files))
        /\ BlockStart(packed.bytes, Len(BlocksOf(packed.bytes)) + 1) = Len(packed.bytes)
        /\ \A i \in 1..Len(BlocksOf(packed.bytes)) :
              BlockIsChunk(packed.bytes, BlobOf(bundle.files), i,
                           IF compression = "Lz4" THEN 3 ELSE 0)

\* A blob shorter than a chunk emitted with LZ4: one block, whose
\* compressed size is not its decompressed size.
C25_Witness ==
    /\ pc = "packed"
    /\ packed.status = "ok"
    /\ compression = "Lz4"
    /\ Len(BlobOf(bundle.files)) > 0
    /\ Len(BlobOf(bundle.files)) < CHUNK_SIZE
    /\ Len(BlocksOf(packed.bytes)) = 1
    /\ BlocksOf(packed.bytes)[1].decompressed_size = Len(BlobOf(bundle.files))
    /\ BlocksOf(packed.bytes)[1].compressed_size > Len(BlobOf(bundle.files))
    /\ BlocksOf(packed.bytes)[1].flags = 3

(***************************************************************************)
(* Properties of the header serialize emits.                               *)
(***************************************************************************)
\* The meta-data bytes of s as from_slice takes them, and where it goes on
\* to read the blocks.
MetaBytes(s) == Take(s, Header_read(s).pos, Header_read(s).compressed_size)

\* C26: in the bytes serialize returns, file_size is the length of the
\* bytes, compressed_size and decompressed_size are the length of the
\* meta-data bytes, the low six bits of the flags are 0 and bit 0x80 is
\* clear; the meta-data lies right behind the header at 0x40 and the block
\* data right behind the meta-data, and from_slice reads both there.
C26_HeaderMatchesLayout ==
    (pc = "serialized" /\ image.status = "ok") =>
        /\ Header_read(image.bytes).ok
        /\ Header_read(image.bytes).file_size = Len(image.bytes)
        /\ Header_read(image.bytes).pos = BUNDLE_HEADER_SIZE
        /\ Header_read(image.bytes).flags % 64 = 0
        /\ (Header_read(image.bytes).flags \div 128) % 2 = 0
        /\ Header_read(image.bytes).compressed_size = Header_read(image.bytes).decompressed_size
        /\ MetaData_read(MetaBytes(image.bytes)).ok
        /\ MetaData_read(MetaBytes(image.bytes)).nodes = image.nodes
        /\ MetaData_write(MetaData_read(MetaBytes(image.bytes))) = MetaBytes(image.bytes)
        /\ Take(image.bytes, BUNDLE_HEADER_SIZE + Len(MetaBytes(image.bytes)),
                Len(BlobOf(bundle.files))) = BlobOf(bundle.files)
        /\ Len(image.bytes) = BUNDLE_HEADER_SIZE + Len(MetaBytes(image.bytes))
                              + Len(BlobOf(bundle.files))
        /\ read_header_and_meta_data(image.bytes, build).status = "ok"
        /\ read_header_and_meta_data(image.bytes, build).pos
               = BUNDLE_HEADER_SIZE + Len(MetaBytes(image.bytes))
        /\ read_header_and_meta_data(image.bytes, build).meta_data
               = MetaData_read(MetaBytes(image.bytes))
        /\ ReadBlocks(image.bytes, read_header_and_meta_data(image.bytes, build).pos,
                      MetaData_read(MetaBytes(image.bytes)).blocks, 1, <<>>)
               = [status |-> "ok", blob |-> BlobOf(bundle.files)]

\* The bytes of a bundle of two files with a blob that is not empty.
C26_Witness ==
    /\ pc = "serialized"
    /\ image.status = "ok"
    /\ Len(image.nodes) = 2
    /\ Len(BlobOf(bundle.files)) > 0
    /\ Header_read(image.bytes).compressed_size > 20
    /\ Header_read(image.bytes).file_size
           > BUNDLE_HEADER_SIZE + Header_read(image.bytes).compressed_size

(***************************************************************************)
(* Properties of the order in which from_slice reads blocks and nodes.     *)
(***************************************************************************)
\* Where the first block lies in the bundle s: behind the header when the
\* meta-data is stored at the end (bit 0x80), else behind the meta-data.
FirstBlockAt(s) ==
    IF (Header_read(s).flags \div 128) % 2 = 1 THEN Header_read(s).pos
    ELSE Header_read(s).pos + Header_read(s).compressed_size

\* Where the compressed bytes of block i lie: behind those of the blocks
\* before it in the table.
RECURSIVE BlockAt(_, _, _)
BlockAt(s, blocks, i) ==
    IF i = 1 THEN FirstBlockAt(s)
    ELSE BlockAt(s, blocks, i - 1) + blocks[i - 1].compressed_size

\* Block i decompressed by the scheme of its flags.
BlockPlain(s, blocks, i) ==
    IF blocks[i].flags % 64 = 0 THEN Take(s, BlockAt(s, blocks, i), blocks[i].compressed_size)
    ELSE Lz4Decompress(Take(s, BlockAt(s, blocks, i), blocks[i].compressed_size),
                       blocks[i].decompressed_size).bytes

\* The blocks 1..n decompressed, one behind the other in table order.
RECURSIVE BlobUpTo(_, _, _)
BlobUpTo(s, blocks, n) ==
    IF n = 0 THEN <<>> ELSE BlobUpTo(s, blocks, n - 1) \o BlockPlain(s, blocks, n)

\* The file made of node n is the slice [offset, offset + size) of blob.
FileIsSlice(files, n, blob) ==
    \E i \in 1..Len(files) :
        /\ files[i].name = PathToString(n.path)
        /\ ValLE(n.offset) + ValLE(n.size) <= Len(blob)
        /\ IF n.file_type = RAW_FILE_TYPE
           THEN files[i].kind = "Raw"
                /\ files[i].raw = Take(blob, ValLE(n.offset), ValLE(n.size))
           ELSE files[i].kind = "Assets"
                /\ files[i].assets = AssetFile_read(Take(blob, ValLE(n.offset), ValLE(n.size))).file

\* Node k is the last node of non-zero size with its path: the one whose
\* slice the entry of that path holds in the end.
LastOfPath(nodes, k) ==
    \A m \in (k + 1)..Len(nodes) : nodes[m].size = U64(0) \/ nodes[m].path # nodes[k].path

\* C27: from_slice takes the compressed bytes of the blocks one behind the
\* other in table order, from behind the header (meta-data at the end) or
\* behind the inline meta-data, and appends the decompressed blocks in
\* that order; every node is sliced from the blob of all blocks, so a node
\* that spans a block boundary holds the bytes of both blocks.
C27_BlocksInOrderThenNodes ==
    (pc = "loaded" /\ bundle.status = "ok") =>
        /\ bundle.blob_len = Len(BlobUpTo(input, bundle.blocks, Len(bundle.blocks)))
        /\ \A k \in 1..Len(bundle.nodes) :
              (bundle.nodes[k].size # U64(0) /\ LastOfPath(bundle.nodes, k)) =>
                  FileIsSlice(bundle.files, bundle.nodes[k],
                              BlobUpTo(input, bundle.blocks, Len(bundle.blocks)))

\* A bundle read from two blocks, the first of one byte, with a node of
\* more than one byte at offset 0, and the meta-data stored at the end.
C27_Witness ==
    /\ pc = "loaded"
    /\ bundle.status = "ok"
    /\ Len(bundle.blocks) = 2
    /\ bundle.blocks[1].decompressed_size = 1
    /\ (Header_read(input).flags \div 128) % 2 = 1
    /\ \E k \in 1..Len(bundle.nodes) :
          /\ bundle.nodes[k].offset = U64(0)
          /\ ValLE(bundle.nodes[k].size) > 1
          /\ bundle.nodes[k].file_type = RAW_FILE_TYPE
          /\ FileIsSlice(bundle.files, bundle.nodes[k],
                         BlockPlain(input, bundle.blocks, 1) \o BlockPlain(input, bundle.blocks, 2))

(***************************************************************************)
(* Properties of the node loop of from_slice.                              *)
(***************************************************************************)
\* The nodes of non-zero size, in table order.
RECURSIVE NonZeroNodes(_)
NonZeroNodes(nodes) ==
    IF nodes = <<>> THEN <<>>
    ELSE IF Head(nodes).size = U64(0) THEN NonZeroNodes(Tail(nodes))
    ELSE <<Head(nodes)>> \o NonZeroNodes(Tail(nodes))

\* Node n lies within a blob of blob_len bytes.
WithinBlob(n, blob_len) ==
    /\ ValLE(n.offset) < blob_len
    /\ ValLE(n.size) <= blob_len - ValLE(n.offset)

\* C28: from_slice makes no file entry and raises no error for a node of
\* size 0, whatever its offset; every node of non-zero size within the
\* blob gives exactly one file entry, and the entries are in node-table
\* order.
C28_ZeroSizeSkippedOthersInOrder ==
    /\ (pc = "failed" /\ bundle.nodes # <<>>) =>
          \E k \in 1..Len(bundle.nodes) : bundle.nodes[k].size # U64(0)
    /\ (pc = "loaded" /\ \A k \in 1..Len(bundle.nodes) :
                            WithinBlob(bundle.nodes[k], bundle.blob_len)
                            \/ bundle.nodes[k].size = U64(0)) =>
          /\ Len(bundle.files) = Len(NonZeroNodes(bundle.nodes))
          /\ \A i \in 1..Len(bundle.files) :
                /\ bundle.files[i].name = PathToString(NonZeroNodes(bundle.nodes)[i].path)
                /\ (bundle.files[i].kind = "Raw")
                       = (NonZeroNodes(bundle.nodes)[i].file_type = RAW_FILE_TYPE)

(***************************************************************************)
(* Properties of the lookup by path id.                                    *)
(***************************************************************************)
\* The table entries (1-based) of the parse r whose path id is p.
EntriesOf(r, p) == {i \in 1..Len(r.objects) : r.objects[i].path_id = p}

\* The asset read from table entry i of the parse r of the bytes s.
DecodedFrom(s, r, i) ==
    Asset_read(s, r.header.data_offset + r.objects[i].offset,
               [size      |-> r.objects[i].size,
                type_hash |-> r.types[r.objects[i].type_id + 1].type_hash,
                pptr      |-> r.objects[i].path_id]).val

\* `slot` is the asset decoded from table entry i: assets[j] with
\* object_order[j] = i - 1, read from the record of that entry.
SlotOfEntry(s, r, f, slot, i) ==
    /\ slot.found
    /\ slot.slot + 1 \in 1..Len(f.assets)
    /\ f.object_order[slot.slot + 1] = i - 1
    /\ r.spans[slot.slot + 1].index = i - 1
    /\ slot.asset = f.assets[slot.slot + 1]
    /\ slot.asset = DecodedFrom(s, r, i)

\* C29: for a parsed file and a path id p of the object table, both
\* lookups return the same slot, the asset decoded from the first table
\* entry whose path id is p; for a p of no entry both return None.
C29_LookupFindsFirstEntry ==
    pc = "looked_up" =>
        /\ found.shared = found.exclusive
        /\ EntriesOf(rd, found.asked) = {} => ~found.shared.found
        /\ EntriesOf(rd, found.asked) # {} =>
              SlotOfEntry(input, rd, file, found.shared,
                          CHOOSE i \in EntriesOf(rd, found.asked) :
                              \A k \in EntriesOf(rd, found.asked) : i <= k)

\* A lookup of a path id that two entries carry, in a file whose first
\* entry is the second record of the data section.
C29_Witness ==
    /\ pc = "looked_up"
    /\ EntriesOf(rd, found.asked) = {1, 2}
    /\ file.object_order = <<1, 0>>
    /\ file.assets[1] # file.assets[2]
    /\ found.shared.found
    /\ found.exclusive.slot = 1

(***************************************************************************)
(* The FFI boundary.  Every exported function that returns an FfiResult    *)
(* builds it with From<Result<T>>, which keeps the text of the last error  *)
(* in the thread-local ERROR_MESSAGE; astra_get_error_message hands that   *)
(* text out as a C string.  The Result converted here is the one           *)
(* message_bundle_parse gets from MessageMap::from_slice for the raw MSBT   *)
(* of the bundle, whose first step is the magic number of the LBL1         *)
(* section at 0x20; the sections behind a right magic number are taken as  *)
(* well formed.                                                            *)
(***************************************************************************)
Threads == {1, 2}

LBL1_POSITION == 32

\* "LBL1"
LBL1_MAGIC == <<76, 66, 76, 49>>

\* "expected magic number 'LBL1', found '"
EXPECTED_LBL1 ==
    <<101, 120, 112, 101, 99, 116, 101, 100, 32, 109, 97, 103, 105, 99,
    32, 110, 117, 109, 98, 101, 114, 32, 39, 76, 66, 76, 49, 39, 44, 32,
    102, 111, 117, 110, 100, 32, 39>>

\* "failed to fill whole buffer", the text of read_exact's UnexpectedEof
FAILED_TO_FILL ==
    <<102, 97, 105, 108, 101, 100, 32, 116, 111, 32, 102, 105, 108, 108,
    32, 119, 104, 111, 108, 101, 32, 98, 117, 102, 102, 101, 114>>

\* The raw MSBT data a bundle may hold: cut before the magic number, with
\* the right magic number, with "LBL2", with "ATR1", and with four zero
\* bytes in its place.
MsbtInputs ==
    {Zeros(4)}
    \cup {Zeros(LBL1_POSITION) \o magic :
             magic \in {LBL1_MAGIC, <<76, 66, 76, 50>>, <<65, 84, 82, 49>>, Zeros(4)}}

\* An anyhow::Error made of a message.
MessageError(message) == [ok |-> FALSE, message |-> message]

\* fn read_utf8(4, cursor) and the comparison of fn parse_lbl1: the four
\* bytes at the cursor decoded as UTF-8 (here all below 0x80, so decoded
\* as they are) and compared with "LBL1".
parse_lbl1(raw_msbt) ==
    IF ~Avail(raw_msbt, LBL1_POSITION, 4) THEN MessageError(FAILED_TO_FILL)
    ELSE IF Take(raw_msbt, LBL1_POSITION, 4) # LBL1_MAGIC
    THEN MessageError(EXPECTED_LBL1 \o Take(raw_msbt, LBL1_POSITION, 4) \o <<39>>)
    ELSE [ok |-> TRUE, message |-> <<>>]

\* format!("{:?}", err) of an anyhow::Error without a source: its Display.
DebugText(err) == err.message

\* Option<String>
None == [some |-> FALSE, text |-> <<>>]

Some(text) == [some |-> TRUE, text |-> text]

\* impl From<Result<T>> for FfiResult<T>: the new ERROR_MESSAGE and the
\* variant returned.
FfiResult_from(value) ==
    IF value.ok THEN [error_message |-> None, result |-> "Ok"]
    ELSE [error_message |-> Some(DebugText(value)), result |-> "Err"]

\* CString::new(text): an error when the text holds a zero byte, else the
\* text with its terminator.
CString_new(text) ==
    IF \E i \in 1..Len(text) : text[i] = 0 THEN [ok |-> FALSE, bytes |-> <<>>]
    ELSE [ok |-> TRUE, bytes |-> text \o <<0>>]

\* What a panic inside an extern "C" function does: the process aborts, or
\* (toolchains before 1.81) unwinds into the caller, which is undefined.
PanicOutcomes == {"abort", "unwind"}

NotCalled == [status |-> "none", text |-> <<>>]

\* astra_get_error_message: null, or the C string of the text kept;
\* CString::new(..).unwrap() panics on a text with a zero byte.
astra_get_error_message(kept) ==
    IF ~kept.some THEN {[status |-> "null", text |-> <<>>]}
    ELSE IF CString_new(kept.text).ok
    THEN {[status |-> "message", text |-> CString_new(kept.text).bytes]}
    ELSE {[status |-> outcome, text |-> <<>>] : outcome \in PanicOutcomes}

InitFfi ==
    /\ pc = "ffi"
    /\ input = <<>>
    /\ error_message = [t \in Threads |-> None]
    /\ last_result = [t \in Threads |-> "none"]
    /\ returned = [t \in Threads |-> NotCalled]
    /\ found = NoLookup
    /\ out2 = NoOut
    /\ compression = "none"
    /\ packed = NoImage
    /\ unpacked = NoBundle
    /\ origin = 0
    /\ consumed = 0
    /\ encoded = <<>>
    /\ AssetIdle
    /\ DispatchIdle
    /\ BundleIdle

\* A call of message_bundle_parse on thread t.
FfiCall ==
    /\ pc = "ffi"
    /\ \E t \in Threads, raw_msbt \in MsbtInputs :
          /\ error_message' =
                 [error_message EXCEPT ![t] = FfiResult_from(parse_lbl1(raw_msbt)).error_message]
          /\ last_result' =
                 [last_result EXCEPT ![t] = FfiResult_from(parse_lbl1(raw_msbt)).result]
          /\ returned' = [returned EXCEPT ![t] = NotCalled]
    /\ UNCHANGED <<pc, input, assetVars, dispatchVars, bundleVars, out2, compression, packed,
                   unpacked, origin, consumed, encoded, found>>

\* A call of astra_get_error_message on thread t; a panic ends the run.
GetErrorMessage ==
    /\ pc = "ffi"
    /\ \E t \in Threads :
          \E got \in astra_get_error_message(error_message[t]) :
              /\ returned' = [returned EXCEPT ![t] = got]
              /\ pc' = IF got.status \in PanicOutcomes THEN "panicked" ELSE "ffi"
    /\ UNCHANGED <<input, assetVars, dispatchVars, bundleVars, out2, compression, packed,
                   unpacked, origin, consumed, encoded, found, error_message, last_result>>

NextFfi == FfiCall \/ GetErrorMessage

SpecFfi == InitFfi /\ [][NextFfi]_vars

(***************************************************************************)
(* Properties of the error message at the FFI boundary.                    *)
(***************************************************************************)
\* C30: on every thread, astra_get_error_message returns a message exactly
\* when the last call that returned an FfiResult on that thread returned
\* Err, the message being the text of that error, and null otherwise: an
\* Err stores the text, an Ok clears it, and the calls of the other threads
\* change nothing.
C30_ErrorMessageFollowsLastResult ==
    \A t \in Threads :
        /\ last_result[t] = "Err" => error_message[t].some
        /\ last_result[t] \in {"none", "Ok"} => ~error_message[t].some
        /\ returned[t] # NotCalled =>
              /\ returned[t].status \in {"null", "message"}
              /\ (returned[t].status = "message") = (last_result[t] = "Err")
              /\ returned[t].status = "message" =>
                    returned[t].text = error_message[t].text \o <<0>>

====
